---- MODULE Spec2Model ----
(***************************************************************************)
(* A model of the presales assistant service (src/ff.py): the search       *)
(* cascade, the aggregation of comprehensive_web_search, the record store  *)
(* cache of load_portfolio_df, the embedding cache of                      *)
(* load_or_create_embeddings, the scoring of score_row_with_reasoning and  *)
(* select_rows_for_summary, the retry loop of duckduckgo_search and the    *)
(* score of validate_search_quality.                                       *)
(***************************************************************************)
EXTENDS Integers, Sequences, FiniteSets, TLC

(***************************************************************************)
(* Bounds of the model.                                                    *)
(***************************************************************************)
\* the largest target_results a direct caller of the cascade asks for
MaxTarget == 4
\* the longest result list one engine call returns
MaxEngineLen == 2

\* the largest number of search queries one request generates
MaxQueries == 2

\* the number of versions the portfolio file goes through (0: not yet there)
MaxVersion == 2
\* the largest number of rows on one sheet of the portfolio file
MaxSheetRows == 1
\* the number of requests served
MaxCalls == 3
\* the largest table the batch loop is run on by itself
MaxBatchRows == 41
\* BATCH_SIZE of load_or_create_embeddings
BATCH_SIZE == 20

\* the request threads of the server
Threads == {1, 2}

\* the URLs the engines may return
Urls == {"u1", "u2", "u3"}
\* the result lists an engine returns to a query of comprehensive_web_search
WebReplies == {<<"u1", "u2">>}
\* the configurations comprehensive_web_search is run under: every engine
\* available, and no SerpAPI key
WebConfigs == {<<TRUE, TRUE, TRUE>>, <<TRUE, TRUE, FALSE>>}
\* the finance.yahoo.com quote pages, the pages of the company website and the
\* sites the "official website" searches find
YahooUrls == {"u1"}
SitePages == {"u2"}
AltUrls == {"u3"}
\* the snippet length of a search hit and of a scraped page, per URL
SnippetLen == [u \in Urls |-> IF u = "u3" THEN 40 ELSE 300]
\* the class validate_search_quality derives from the URL and title of a hit
UrlClass == [u \in Urls |->
    CASE u = "u1" -> "financial" [] u = "u2" -> "company_info" [] OTHER -> "general"]

(***************************************************************************)
(* State.                                                                  *)
(***************************************************************************)
VARIABLES
    \* module configuration, fixed at import time (ff.py 34-56)
    DDGS_AVAILABLE,
    GOOGLE_SEARCH_AVAILABLE,
    SERPAPI_API_KEY,
    \* one call of intelligent_cascade_search
    cs_pc,          \* "idle" | "loop" | "done"
    cs_target,      \* target_results
    cs_idx,         \* position in search_engines, 4 = past the last engine
    cs_all_results, \* all_results
    cs_log,         \* history: one entry per engine["func"] invocation
    \* one call of comprehensive_web_search
    ws_pc,          \* the stage the call is in, "idle" before the call
    ws_all_results, \* all_results
    ws_max_queries, \* max_queries
    ws_industry,    \* whether an industry was given
    ws_website,     \* whether a company_website was given
    ws_i,           \* loop counter of the stage
    \* the portfolio file, the two caches and the calls that use them
    xlsx_hist,      \* PORTFOLIO_XLSX: the contents of each version so far; the
                    \* mtime of a version is its number, no version: no file
    portfolio_cache,       \* _portfolio_cache
    EMBEDDINGS_CACHE_FILE, \* the JSON document on disk, in two written parts
    callers,        \* the threads that serve requests
    th,             \* per thread: position and locals of the running call
    last_load,      \* the load_portfolio_df call that returned last
    calls,          \* the number of calls made so far
    \* the batch loop of load_or_create_embeddings on a table of its own
    bt_pc,
    bt_rows,
    bt_fails,
    bt_embeddings,
    \* one call of score_row_with_reasoning
    sc_pc,          \* "off" | "call" | "returned"
    sc_args,        \* the arguments of the call
    sc_result,      \* the dictionary it returns
    \* one call of select_rows_for_summary
    sel_pc,         \* "off" | "call" | "returned"
    sel_args,       \* the arguments, the loaded table and its embeddings
    sel_out,        \* the candidates scored and the list returned
    \* the calls of duckduckgo_search
    rt_pc,          \* "off" | "idle" | "attempt" | "returned"
    rt_retries,     \* retries
    rt_attempt,     \* attempt
    rt_log,         \* history: the attempts made and the waits between them
    rt_result,      \* the list returned
    \* one call of validate_search_quality
    ql_pc,          \* "off" | "call" | "returned"
    ql_all_results, \* all_results
    ql_metrics,     \* the dictionary it returns
    \* the rendering at the end of comprehensive_web_search
    fm_pc,          \* "off" | "call" | "returned"
    fm_all_results, \* all_results
    fm_sections,    \* formatted_sections
    \* one bundle through ai_extract_intelligence and _normalize_legacy_intel
    it_pc,          \* "off" | "call" | "extracted" | "normalized"
    it_reply,       \* what the completion capability answers
    it_data,        \* the bundle before normalization
    it_out,         \* the bundle after normalization
    \* one request to /portfolio_summary or /portfolio_summary_selected
    ep_pc,          \* "off" | "request" | "intelligence" | "responded"
    ep_req,         \* the endpoint and the intelligence_data of the request
    ep_used,        \* the bundles handed to the pitch generator
    ep_response     \* the intelligence_data of the response

configVars == <<DDGS_AVAILABLE, GOOGLE_SEARCH_AVAILABLE, SERPAPI_API_KEY>>
cascadeVars == <<cs_pc, cs_target, cs_idx, cs_all_results, cs_log>>
webVars == <<ws_pc, ws_all_results, ws_max_queries, ws_industry, ws_website, ws_i>>
storeVars == <<xlsx_hist, portfolio_cache, EMBEDDINGS_CACHE_FILE, callers, th, last_load, calls>>
batchVars == <<bt_pc, bt_rows, bt_fails, bt_embeddings>>
scoreVars == <<sc_pc, sc_args, sc_result>>
selectVars == <<sel_pc, sel_args, sel_out>>
retryVars == <<rt_pc, rt_retries, rt_attempt, rt_log, rt_result>>
qualityVars == <<ql_pc, ql_all_results, ql_metrics>>
formatVars == <<fm_pc, fm_all_results, fm_sections>>
intelVars == <<it_pc, it_reply, it_data, it_out>>
endpointVars == <<ep_pc, ep_req, ep_used, ep_response>>
bundleVars == <<formatVars, intelVars, endpointVars>>
functionVars == <<scoreVars, selectVars, retryVars, qualityVars, bundleVars>>
vars == <<configVars, cascadeVars, webVars, storeVars, batchVars, functionVars>>
notCascade == <<configVars, webVars, storeVars, batchVars, functionVars>>
notWeb == <<configVars, cascadeVars, storeVars, batchVars, functionVars>>
notStore == <<configVars, cascadeVars, webVars, batchVars, functionVars>>
notBatch == <<configVars, cascadeVars, webVars, storeVars, functionVars>>
serviceVars == <<cascadeVars, webVars, storeVars, batchVars>>
notScore == <<configVars, serviceVars, selectVars, retryVars, qualityVars, bundleVars>>
notSelect == <<configVars, serviceVars, scoreVars, retryVars, qualityVars, bundleVars>>
notRetry == <<configVars, serviceVars, scoreVars, selectVars, qualityVars, bundleVars>>
notQuality == <<configVars, serviceVars, scoreVars, selectVars, retryVars, bundleVars>>
scoringVars == <<scoreVars, selectVars, retryVars, qualityVars>>
notFormat == <<configVars, serviceVars, scoringVars, intelVars, endpointVars>>
notIntel == <<configVars, serviceVars, scoringVars, formatVars, endpointVars>>
notEndpoint == <<configVars, serviceVars, scoringVars, formatVars, intelVars>>

(***************************************************************************)
(* Helpers.                                                                *)
(***************************************************************************)
Min(a, b) == IF a <= b THEN a ELSE b

SeqsUpTo(S, n) == UNION {[1..k -> S] : k \in 0..n}

UrlsOf(results) == {results[i].url : i \in 1..Len(results)}

\* every URL of the list occurs at exactly one position
EachUrlOnce(results) ==
    \A i, j \in 1..Len(results) : results[i].url = results[j].url => i = j

(***************************************************************************)
(* The portfolio file and load_portfolio_df (ff.py 124-162).               *)
(***************************************************************************)
\* what one version of the workbook holds: the number of rows of the first
\* sheet and of the second sheet, -1 for a sheet that cannot be read (a
\* sheet without rows gives the same table as one that cannot be read)
Contents == [active : {-1} \cup 1..MaxSheetRows, closed : {-1} \cup 1..MaxSheetRows]

\* a status column that does not follow the sheet
SheetRowsAllActive(ver, status, n) ==
    IF n < 0 THEN <<>>
    ELSE [i \in 1..n |-> [ver |-> ver, status |-> "active", i |-> i]]

\* pd.read_excel of one sheet followed by the status column: a row of the
\* model stands for the cells of row i of that sheet in version ver
SheetRows(ver, status, n) ==
    IF n < 0 THEN <<>>
    ELSE [i \in 1..n |-> [ver |-> ver, status |-> status, i |-> i]]

\* the table load_portfolio_df builds from one version of the file
TableOf(ver) ==
    SheetRows(ver, "active", xlsx_hist[ver].active)
        \o SheetRows(ver, "closed", xlsx_hist[ver].closed)

\* st_mtime of the file: every modification gives a new one
Mtime == Len(xlsx_hist)

CacheValidNever(cache, mtime) == FALSE

\* the test of line 131
CacheValid(cache, mtime) == cache.df_set /\ cache.mtime = mtime

NoHead == [set |-> FALSE, xlsx_mtime |-> 0, row_count |-> 0, writer |-> 0]
NoBody == [set |-> FALSE, embeddings |-> <<>>, writer |-> 0]
NoFile == [exists |-> FALSE, head |-> NoHead, body |-> NoBody]

NoLoad == [valid |-> FALSE, mtime |-> 0, df |-> <<>>]

\* the locals of a call, and for the time the call is returning what it did:
\* of load_portfolio_df the way it returns (lvia), its reads of the file and
\* the call that returned before it (prev); of load_or_create_embeddings the
\* way it returns (via), the vectors, its requests, the cache document on
\* disk when it chose its way (found), the one it read (saw) and the parts it
\* wrote (written)
IdleThread ==
    [pc |-> "idle", op |-> "none", mtime |-> 0,
     df_active |-> <<>>, df |-> <<>>, reads |-> 0, lvia |-> "none", prev |-> NoLoad,
     xlsx_mtime |-> 0, all_embeddings |-> <<>>, requests |-> 0,
     via |-> "none", found |-> NoFile, saw |-> NoFile, written |-> <<>>]

StoreStart ==
    /\ xlsx_hist = <<>>
    /\ portfolio_cache = [df_set |-> FALSE, df |-> <<>>, mtime |-> 0]
    /\ EMBEDDINGS_CACHE_FILE = NoFile
    /\ th = [t \in Threads |-> IdleThread]
    /\ last_load = NoLoad
    /\ calls = 0

StoreInit == StoreStart /\ callers = {}

\* the file is created or saved again by its owner
ModifyFile ==
    /\ Len(xlsx_hist) < MaxVersion
    /\ \E c \in Contents : xlsx_hist' = Append(xlsx_hist, c)
    /\ UNCHANGED <<portfolio_cache, EMBEDDINGS_CACHE_FILE, callers, th, last_load, calls>>
    /\ UNCHANGED notStore

\* return of load_portfolio_df with the table df
FinishLoad(t, l, df, lvia) ==
    /\ th' = [th EXCEPT ![t] = [l EXCEPT !.pc = "lp_returned", !.df = df, !.df_active = <<>>,
                                         !.lvia = lvia, !.prev = last_load]]
    /\ last_load' = [valid |-> TRUE, mtime |-> l.mtime, df |-> df]

\* entry of load_portfolio_df with lines 126-130: without the file the empty
\* table is returned, else the file's mtime is taken
EnterLoad(t, op) ==
    /\ th[t].pc = "idle"
    /\ calls < MaxCalls
    /\ calls' = calls + 1
    /\ IF Len(xlsx_hist) = 0
       THEN FinishLoad(t, [IdleThread EXCEPT !.op = op], <<>>, "nofile")
       ELSE /\ th' = [th EXCEPT ![t] =
                    [IdleThread EXCEPT !.pc = "lp_check", !.op = op, !.mtime = Mtime]]
            /\ last_load' = last_load

\* a request that reads the table
CallLoadPortfolioDf ==
    /\ \E t \in callers : EnterLoad(t, "load")
    /\ UNCHANGED <<xlsx_hist, portfolio_cache, EMBEDDINGS_CACHE_FILE, callers>>
    /\ UNCHANGED notStore

\* a request that needs the vectors (line 1603)
CallLoadOrCreateEmbeddings ==
    /\ \E t \in callers : EnterLoad(t, "embed")
    /\ UNCHANGED <<xlsx_hist, portfolio_cache, EMBEDDINGS_CACHE_FILE, callers>>
    /\ UNCHANGED notStore

\* line 131, the test holds
LoadCacheHit ==
    /\ \E t \in callers :
          /\ th[t].pc = "lp_check"
          /\ CacheValid(portfolio_cache, th[t].mtime)
          /\ th' = [th EXCEPT ![t].pc = "lp_hit"]
    /\ UNCHANGED <<xlsx_hist, portfolio_cache, EMBEDDINGS_CACHE_FILE, callers, last_load, calls>>
    /\ UNCHANGED notStore

\* line 131, the test fails
LoadCacheMiss ==
    /\ \E t \in callers :
          /\ th[t].pc = "lp_check"
          /\ ~CacheValid(portfolio_cache, th[t].mtime)
          /\ th' = [th EXCEPT ![t].pc = "lp_read0"]
    /\ UNCHANGED <<xlsx_hist, portfolio_cache, EMBEDDINGS_CACHE_FILE, callers, last_load, calls>>
    /\ UNCHANGED notStore

\* line 132: the table is fetched from the cache again for the return
LoadReturnCached ==
    /\ \E t \in callers :
          /\ th[t].pc = "lp_hit"
          /\ FinishLoad(t, th[t], portfolio_cache.df, "cache")
    /\ UNCHANGED <<xlsx_hist, portfolio_cache, EMBEDDINGS_CACHE_FILE, callers, calls>>
    /\ UNCHANGED notStore

\* lines 134-138
LoadReadActive ==
    /\ \E t \in callers :
          /\ th[t].pc = "lp_read0"
          /\ th' = [th EXCEPT ![t].pc = "lp_read1",
                              ![t].reads = @ + 1,
                              ![t].df_active =
                                  SheetRows(Mtime, "active", xlsx_hist[Mtime].active)]
    /\ UNCHANGED <<xlsx_hist, portfolio_cache, EMBEDDINGS_CACHE_FILE, callers, last_load, calls>>
    /\ UNCHANGED notStore

\* lines 140-158: the second sheet, the concatenation and the normalisation
LoadReadClosed ==
    /\ \E t \in callers :
          /\ th[t].pc = "lp_read1"
          /\ th' = [th EXCEPT ![t].pc = "lp_store_df",
                              ![t].reads = @ + 1,
                              ![t].df_active = <<>>,
                              ![t].df = th[t].df_active
                                  \o SheetRows(Mtime, "closed", xlsx_hist[Mtime].closed)]
    /\ UNCHANGED <<xlsx_hist, portfolio_cache, EMBEDDINGS_CACHE_FILE, callers, last_load, calls>>
    /\ UNCHANGED notStore

\* line 160
LoadStoreDf ==
    /\ \E t \in callers :
          /\ th[t].pc = "lp_store_df"
          /\ portfolio_cache' = [portfolio_cache EXCEPT !.df_set = TRUE, !.df = th[t].df]
          /\ th' = [th EXCEPT ![t].pc = "lp_store_mtime"]
    /\ UNCHANGED <<xlsx_hist, EMBEDDINGS_CACHE_FILE, callers, last_load, calls>>
    /\ UNCHANGED notStore

\* lines 161-162
LoadStoreMtime ==
    /\ \E t \in callers :
          /\ th[t].pc = "lp_store_mtime"
          /\ portfolio_cache' = [portfolio_cache EXCEPT !.mtime = th[t].mtime]
          /\ FinishLoad(t, th[t], th[t].df, "file")
    /\ UNCHANGED <<xlsx_hist, EMBEDDINGS_CACHE_FILE, callers, calls>>
    /\ UNCHANGED notStore

\* the table or the vectors reach the caller
ReturnToCaller ==
    /\ \E t \in callers :
          /\ \/ th[t].pc = "lp_returned" /\ th[t].op = "load"
             \/ th[t].pc = "em_returned"
          /\ th' = [th EXCEPT ![t] = IdleThread]
    /\ UNCHANGED <<xlsx_hist, portfolio_cache, EMBEDDINGS_CACHE_FILE, callers, last_load, calls>>
    /\ UNCHANGED notStore

(***************************************************************************)
(* load_or_create_embeddings (ff.py 164-234).                              *)
(***************************************************************************)
\* lines 190-200: the text of a row is built from six of its cells, which
\* the model names by the version of the file, the sheet and the position
RowText(row) == <<row.ver, row.status, row.i>>

Texts(df) == [k \in 1..Len(df) |-> RowText(df[k])]

\* [0.0]*1536
ZeroVec == [zero |-> TRUE, text |-> <<0, "", 0>>]

\* texts[i:i+BATCH_SIZE]
Batch(texts, i) == SubSeq(texts, i + 1, Min(i + BATCH_SIZE, Len(texts)))

\* lines 209-215: the embedding capability answers one vector per input
CapabilityVectors(batch) == [k \in 1..Len(batch) |-> [zero |-> FALSE, text |-> batch[k]]]

FailedBatchVectorsFullSize(batch) == [k \in 1..BATCH_SIZE |-> ZeroVec]

\* line 220
FailedBatchVectors(batch) == [k \in 1..Len(batch) |-> ZeroVec]

\* range(0, len(texts), BATCH_SIZE)
BatchStarts(n) == {i \in 0..(n - 1) : i % BATCH_SIZE = 0}

\* lines 206-220; fails: the batches whose request raises
RECURSIVE BatchLoop(_, _, _, _)
BatchLoop(texts, i, fails, all_embeddings) ==
    IF i >= Len(texts) THEN all_embeddings
    ELSE BatchLoop(texts, i + BATCH_SIZE, fails,
                   all_embeddings \o (IF i \in fails
                                      THEN FailedBatchVectors(Batch(texts, i))
                                      ELSE CapabilityVectors(Batch(texts, i))))

GenerateEmbeddings(df, fails) == BatchLoop(Texts(df), 0, fails, <<>>)

\* json.load of the cache file succeeds
Parses(f) == f.exists /\ f.head.set /\ f.body.set

CacheTagsMatchMtimeOnly(f, xlsx_mtime, row_count) ==
    Parses(f) /\ f.head.xlsx_mtime = xlsx_mtime

\* lines 173-178
CacheTagsMatch(f, xlsx_mtime, row_count) ==
    /\ Parses(f)
    /\ f.head.xlsx_mtime = xlsx_mtime
    /\ f.head.row_count = row_count

\* the two parts json.dump writes the document in
HeadOf(t, l) ==
    [set |-> TRUE, xlsx_mtime |-> l.xlsx_mtime, row_count |-> Len(l.df), writer |-> t]
BodyOf(t, l) ==
    [set |-> TRUE, embeddings |-> l.all_embeddings, writer |-> t]

\* the tags of a document, which is what matters of it to a call that does
\* not return its vectors
TagsOf(f) == [f EXCEPT !.head.writer = 0, !.body.embeddings = <<>>, !.body.writer = 0]

\* the locals of load_or_create_embeddings after line 166
AfterLoad(l) == [l EXCEPT !.mtime = 0, !.reads = 0, !.lvia = "none", !.prev = NoLoad]

\* lines 167-168: nothing to embed, the cache file is not looked at
EmbedEmptyTable ==
    /\ \E t \in callers :
          /\ th[t].pc = "lp_returned"
          /\ th[t].op = "embed"
          /\ th[t].df = <<>>
          /\ th' = [th EXCEPT ![t] = [AfterLoad(th[t]) EXCEPT
                                          !.pc = "em_returned",
                                          !.via = "empty",
                                          !.found = TagsOf(EMBEDDINGS_CACHE_FILE)]]
    /\ UNCHANGED <<xlsx_hist, portfolio_cache, EMBEDDINGS_CACHE_FILE, callers, last_load, calls>>
    /\ UNCHANGED notStore

\* line 170
EmbedStat ==
    /\ \E t \in callers :
          /\ th[t].pc = "lp_returned"
          /\ th[t].op = "embed"
          /\ th[t].df # <<>>
          /\ th' = [th EXCEPT ![t] = [AfterLoad(th[t]) EXCEPT !.pc = "em_check",
                                                              !.xlsx_mtime = Mtime]]
    /\ UNCHANGED <<xlsx_hist, portfolio_cache, EMBEDDINGS_CACHE_FILE, callers, last_load, calls>>
    /\ UNCHANGED notStore

\* lines 173-181, the document is there and carries both tags of the call
EmbedCacheHit ==
    /\ \E t \in callers :
          /\ th[t].pc = "em_check"
          /\ CacheTagsMatch(EMBEDDINGS_CACHE_FILE, th[t].xlsx_mtime, Len(th[t].df))
          /\ th' = [th EXCEPT ![t].pc = "em_returned",
                              ![t].via = "cache",
                              ![t].found = EMBEDDINGS_CACHE_FILE,
                              ![t].saw = EMBEDDINGS_CACHE_FILE,
                              ![t].all_embeddings = EMBEDDINGS_CACHE_FILE.body.embeddings]
    /\ UNCHANGED <<xlsx_hist, portfolio_cache, EMBEDDINGS_CACHE_FILE, callers, last_load, calls>>
    /\ UNCHANGED notStore

\* lines 173-183, no file, no document in it or another tag
EmbedCacheMiss ==
    /\ \E t \in callers :
          /\ th[t].pc = "em_check"
          /\ ~CacheTagsMatch(EMBEDDINGS_CACHE_FILE, th[t].xlsx_mtime, Len(th[t].df))
          /\ th' = [th EXCEPT ![t].pc = "em_generate",
                              ![t].found = TagsOf(EMBEDDINGS_CACHE_FILE),
                              ![t].saw = TagsOf(EMBEDDINGS_CACHE_FILE)]
    /\ UNCHANGED <<xlsx_hist, portfolio_cache, EMBEDDINGS_CACHE_FILE, callers, last_load, calls>>
    /\ UNCHANGED notStore

\* lines 185-230: the vectors are requested batch by batch, then
\* open(..., 'w') creates the file or cuts it to length zero
EmbedGenerate ==
    /\ \E t \in callers :
          /\ th[t].pc = "em_generate"
          /\ \E fails \in SUBSET BatchStarts(Len(th[t].df)) :
                th' = [th EXCEPT ![t].pc = "em_write_head",
                                 ![t].requests = Cardinality(BatchStarts(Len(th[t].df))),
                                 ![t].all_embeddings = GenerateEmbeddings(th[t].df, fails)]
          /\ EMBEDDINGS_CACHE_FILE' = [NoFile EXCEPT !.exists = TRUE]
    /\ UNCHANGED <<xlsx_hist, portfolio_cache, callers, last_load, calls>>
    /\ UNCHANGED notStore

\* line 231: the first part of the document reaches the file
EmbedWriteHead ==
    /\ \E t \in callers :
          /\ th[t].pc = "em_write_head"
          /\ EMBEDDINGS_CACHE_FILE' =
                [EMBEDDINGS_CACHE_FILE EXCEPT !.exists = TRUE, !.head = HeadOf(t, th[t])]
          /\ th' = [th EXCEPT ![t].pc = "em_write_body",
                              ![t].written = Append(@, HeadOf(t, th[t]))]
    /\ UNCHANGED <<xlsx_hist, portfolio_cache, callers, last_load, calls>>
    /\ UNCHANGED notStore

\* lines 231-234: the rest of the document reaches the file at its own offset
EmbedWriteBody ==
    /\ \E t \in callers :
          /\ th[t].pc = "em_write_body"
          /\ EMBEDDINGS_CACHE_FILE' =
                [EMBEDDINGS_CACHE_FILE EXCEPT !.exists = TRUE, !.body = BodyOf(t, th[t])]
          /\ th' = [th EXCEPT ![t].pc = "em_returned",
                              ![t].via = "fresh",
                              ![t].written = Append(@, BodyOf(t, th[t]))]
    /\ UNCHANGED <<xlsx_hist, portfolio_cache, callers, last_load, calls>>
    /\ UNCHANGED notStore

(***************************************************************************)
(* The batch loop of lines 202-222 on tables of up to MaxBatchRows rows.   *)
(***************************************************************************)
BatchTable(n) == SheetRows(1, "active", n)

\* no call of score_row_with_reasoning, select_rows_for_summary,
\* duckduckgo_search or validate_search_quality by itself
ScoreInit ==
    /\ sc_pc = "off"
    /\ sc_args = <<>>
    /\ sc_result = <<>>

SelectInit ==
    /\ sel_pc = "off"
    /\ sel_args = <<>>
    /\ sel_out = <<>>

RetryInit ==
    /\ rt_pc = "off"
    /\ rt_retries = 0
    /\ rt_attempt = 0
    /\ rt_log = <<>>
    /\ rt_result = <<>>

QualityInit ==
    /\ ql_pc = "off"
    /\ ql_all_results = <<>>
    /\ ql_metrics = <<>>

\* no rendering, bundle or endpoint request by itself
FormatInit ==
    /\ fm_pc = "off"
    /\ fm_all_results = <<>>
    /\ fm_sections = <<>>

IntelInit ==
    /\ it_pc = "off"
    /\ it_reply = <<>>
    /\ it_data = <<>>
    /\ it_out = <<>>

EndpointInit ==
    /\ ep_pc = "off"
    /\ ep_req = <<>>
    /\ ep_used = <<>>
    /\ ep_response = <<>>

BundlesInit == FormatInit /\ IntelInit /\ EndpointInit

FunctionsInit == ScoreInit /\ SelectInit /\ RetryInit /\ QualityInit /\ BundlesInit

BatchInit ==
    /\ bt_pc = "off"
    /\ bt_rows = 0
    /\ bt_fails = {}
    /\ bt_embeddings = <<>>

BatchStart ==
    /\ bt_pc = "start"
    /\ bt_rows \in 0..MaxBatchRows
    /\ bt_fails \in SUBSET BatchStarts(bt_rows)
    /\ bt_embeddings = <<>>

BatchRun ==
    /\ bt_pc = "start"
    /\ bt_pc' = "done"
    /\ bt_embeddings' = GenerateEmbeddings(BatchTable(bt_rows), bt_fails)
    /\ UNCHANGED <<bt_rows, bt_fails>>
    /\ UNCHANGED notBatch

(***************************************************************************)
(* intelligent_cascade_search (ff.py 626-711).                             *)
(***************************************************************************)
\* search_engines, in priority order
search_engines == <<"duckduckgo", "google", "serpapi">>

\* engine["max_results"]
EngineMaxResults(name, target) ==
    IF name = "duckduckgo" THEN target ELSE Min(target, 5)

\* the three availability tests that skip an engine
EngineAvailable(name) ==
    CASE name = "serpapi" -> SERPAPI_API_KEY
      [] name = "google" -> GOOGLE_SEARCH_AVAILABLE
      [] name = "duckduckgo" -> DDGS_AVAILABLE

\* a limit that leaves the results still needed out
SearchLimitByMaxOnly(name, target, count) == EngineMaxResults(name, target)

\* search_limit = min(engine["max_results"], remaining_needed + 2)
SearchLimit(name, target, count) ==
    Min(EngineMaxResults(name, target), (target - count) + 2)

\* the result dictionaries an engine function builds from the URLs it found
FormatResults(name, urls) ==
    [i \in 1..Len(urls) |->
        [url |-> urls[i], source |-> name, category |-> "web_search"]]

\* new_results: the engine's results whose URL is not among existing_urls
NewResults(all_results, engine_results) ==
    LET existing_urls == UrlsOf(all_results)
        Fresh(r) == r.url \notin existing_urls
    IN SelectSeq(engine_results, Fresh)

\* a cascade that stops only at the full target
SufficientResultsFullTarget(count, target) == count >= target

\* len(all_results) >= target_results * 0.7
SufficientResults(count, target) == 10 * count >= 7 * target

\* len(all_results) >= target_results
TargetAchieved(count, target) == count >= target

\* an except branch that gives the cascade up
AfterEngineErrorAbort(idx) == 4

\* what the except branch of the cascade does with the loop position
AfterEngineError(idx) == idx + 1

CascadeInit ==
    /\ cs_pc = "idle"
    /\ cs_target = 0
    /\ cs_idx = 1
    /\ cs_all_results = <<>>
    /\ cs_log = <<>>

\* the configuration of a full installation
ConfigFull ==
    /\ DDGS_AVAILABLE = TRUE
    /\ GOOGLE_SEARCH_AVAILABLE = TRUE
    /\ SERPAPI_API_KEY = TRUE

ConfigInit ==
    /\ DDGS_AVAILABLE \in BOOLEAN
    /\ GOOGLE_SEARCH_AVAILABLE \in BOOLEAN
    /\ SERPAPI_API_KEY \in BOOLEAN

\* a call intelligent_cascade_search(query, target)
CascadeCall(target) ==
    /\ cs_pc = "idle"
    /\ cs_pc' = "loop"
    /\ cs_target' = target
    /\ cs_idx' = 1
    /\ cs_all_results' = <<>>
    /\ cs_log' = <<>>

\* an unavailable engine is passed over with continue
CascadeSkipUnavailable ==
    /\ cs_pc = "loop"
    /\ cs_idx <= 3
    /\ ~TargetAchieved(Len(cs_all_results), cs_target)
    /\ ~EngineAvailable(search_engines[cs_idx])
    /\ cs_idx' = cs_idx + 1
    /\ UNCHANGED <<cs_pc, cs_target, cs_all_results, cs_log>>
    /\ UNCHANGED notCascade

LogEntry(name, outcome, urls) ==
    [engine |-> name,
     before |-> Len(cs_all_results),
     limit |-> SearchLimit(name, cs_target, Len(cs_all_results)),
     outcome |-> outcome,
     returned |-> urls]

\* engine["func"](query, search_limit) raises: except ... continue
CascadeEngineRaises ==
    /\ cs_pc = "loop"
    /\ cs_idx <= 3
    /\ ~TargetAchieved(Len(cs_all_results), cs_target)
    /\ EngineAvailable(search_engines[cs_idx])
    /\ cs_log' = Append(cs_log, LogEntry(search_engines[cs_idx], "raise", <<>>))
    /\ cs_idx' = AfterEngineError(cs_idx)
    /\ UNCHANGED <<cs_pc, cs_target, cs_all_results>>
    /\ UNCHANGED notCascade

\* engine["func"](query, search_limit) returns a list
CascadeEngineReturns ==
    \E urls \in SeqsUpTo(Urls, MaxEngineLen) :
    /\ cs_pc = "loop"
    /\ cs_idx <= 3
    /\ ~TargetAchieved(Len(cs_all_results), cs_target)
    /\ EngineAvailable(search_engines[cs_idx])
    /\ cs_log' = Append(cs_log, LogEntry(search_engines[cs_idx], "ok", urls))
    /\ LET engine_results == FormatResults(search_engines[cs_idx], urls)
           extended == cs_all_results \o NewResults(cs_all_results, engine_results)
       IN IF engine_results # <<>>
          THEN /\ cs_all_results' = extended
               /\ IF SufficientResults(Len(extended), cs_target)
                  THEN cs_pc' = "done" /\ cs_idx' = cs_idx
                  ELSE cs_pc' = "loop" /\ cs_idx' = cs_idx + 1
          ELSE /\ cs_all_results' = cs_all_results
               /\ cs_pc' = "loop"
               /\ cs_idx' = cs_idx + 1
    /\ UNCHANGED cs_target
    /\ UNCHANGED notCascade

\* the loop ends, by the break at its head ("we already have enough results")
\* or past the last engine: return all_results
CascadeLoopExit ==
    /\ cs_pc = "loop"
    /\ IF cs_idx <= 3 THEN TargetAchieved(Len(cs_all_results), cs_target) ELSE TRUE
    /\ cs_pc' = "done"
    /\ UNCHANGED <<cs_target, cs_idx, cs_all_results, cs_log>>
    /\ UNCHANGED notCascade

\* what an engine call may do: raise, or return one of the lists
EngineOutcomes(lists) ==
    {[raises |-> TRUE, urls |-> <<>>]} \cup {[raises |-> FALSE, urls |-> l] : l \in lists}

\* the list one whole call returns, from loop position idx on, when engine k
\* answers replies[k] (it raises, or returns the list urls)
RECURSIVE CascadeFrom(_, _, _, _)
CascadeFrom(idx, all_results, target, replies) ==
    IF idx > 3 \/ TargetAchieved(Len(all_results), target) THEN all_results
    ELSE IF ~EngineAvailable(search_engines[idx])
    THEN CascadeFrom(idx + 1, all_results, target, replies)
    ELSE IF replies[idx].raises
    THEN CascadeFrom(AfterEngineError(idx), all_results, target, replies)
    ELSE LET engine_results == FormatResults(search_engines[idx], replies[idx].urls)
             extended == all_results \o NewResults(all_results, engine_results)
         IN IF engine_results = <<>>
            THEN CascadeFrom(idx + 1, all_results, target, replies)
            ELSE IF SufficientResults(Len(extended), target)
            THEN extended
            ELSE CascadeFrom(idx + 1, extended, target, replies)

\* intelligent_cascade_search(query, target) as one step
CascadeRun(target, replies) == CascadeFrom(1, <<>>, target, replies)

\* a direct call intelligent_cascade_search(query, target)
CascadeDirectCall ==
    /\ \E target \in 0..MaxTarget : CascadeCall(target)
    /\ UNCHANGED notCascade

WebInit ==
    /\ ws_pc = "idle"
    /\ ws_all_results = <<>>
    /\ ws_max_queries = 0
    /\ ws_industry = FALSE
    /\ ws_website = FALSE
    /\ ws_i = 0

InitCascade ==
    ConfigInit /\ CascadeInit /\ WebInit /\ StoreInit /\ BatchInit /\ FunctionsInit

NextCascade ==
    \/ CascadeDirectCall
    \/ CascadeSkipUnavailable
    \/ CascadeEngineRaises
    \/ CascadeEngineReturns
    \/ CascadeLoopExit

SpecCascade == InitCascade /\ [][NextCascade]_vars

(***************************************************************************)
(* validate_search_quality (ff.py 717-780).                                *)
(***************************************************************************)
\* categories: the classes of the results, by URL and title
QualityCategories(results) == {UrlClass[results[i].url] : i \in 1..Len(results)}

\* sum(len(r.get("snippet", "")) for r in all_results)
SnippetSum(results) ==
    LET sum[i \in 0..Len(results)] ==
            IF i = 0 THEN 0 ELSE sum[i - 1] + SnippetLen[results[i].url]
    IN sum[Len(results)]

\* quality_score as the fraction QualityNum / QualityDen, with
\* target_categories = 5: 0.4 * unique_urls / 20 + 0.3 * categories / 5
\* + 0.3 * min(avg_snippet_length, 300) / 300, capped at 1
QualityDen(results) == 1000 * Len(results)

QualityNum(results) ==
    LET n == Len(results)
        raw == 20 * Cardinality(UrlsOf(results)) * n
               + 60 * Cardinality(QualityCategories(results)) * n
               + Min(SnippetSum(results), 300 * n)
    IN Min(raw, QualityDen(results))

\* quality_metrics['quality_score'] < 0.5; an empty collection scores 0.0
QualityBelowHalf(results) ==
    results = <<>> \/ 2 * QualityNum(results) < QualityDen(results)

(***************************************************************************)
(* comprehensive_web_search (ff.py 782-1174).                              *)
(***************************************************************************)
\* a result a scraping stage appends
Scraped(url, source, category) ==
    [url |-> url, source |-> source, category |-> category]

\* query_results of a main query is added to all_results
MergeQueryResults(all_results, query_results) == all_results \o query_results

\* the results of a targeted query are filtered against all_results and added
MergeTargetedResults(all_results, additional_results) ==
    all_results \o NewResults(all_results, additional_results)

\* a call comprehensive_web_search(client, industry, focus, company_website)
\* whose query generator returned n queries
WebCall ==
    /\ ws_pc = "idle"
    /\ cs_pc = "idle"
    /\ \E n \in 0..MaxQueries, industry \in BOOLEAN, website \in BOOLEAN :
          /\ ws_max_queries' = Min(10, n)
          /\ ws_industry' = industry
          /\ ws_website' = website
    /\ ws_pc' = "main"
    /\ ws_all_results' = <<>>
    /\ ws_i' = 0
    /\ UNCHANGED notWeb

\* SEARCH_ENGINE_PREFERENCE is "intelligent_mixed": each main query is
\* answered by intelligent_cascade_search(query, target_results=8) and
\* all_results.extend(query_results)
WebMainQuery ==
    /\ ws_pc = "main"
    /\ ws_i < ws_max_queries
    /\ \E replies \in [1..3 -> EngineOutcomes(WebReplies)] :
          ws_all_results' = MergeQueryResults(ws_all_results, CascadeRun(8, replies))
    /\ ws_i' = ws_i + 1
    /\ UNCHANGED <<ws_pc, ws_max_queries, ws_industry, ws_website>>
    /\ UNCHANGED notWeb

WebMainDone ==
    /\ ws_pc = "main"
    /\ ws_i = ws_max_queries
    /\ ws_pc' = "yahoo"
    /\ ws_i' = 0
    /\ UNCHANGED <<ws_all_results, ws_max_queries, ws_industry, ws_website>>
    /\ UNCHANGED notWeb

\* the Yahoo Finance page found by search is scraped, or none is found
WebYahooAuto ==
    /\ ws_pc = "yahoo"
    /\ \E link \in YahooUrls \cup {"none"} :
          ws_all_results' =
             IF link = "none" THEN ws_all_results
             ELSE Append(ws_all_results, Scraped(link, "yahoo_auto", "financial"))
    /\ ws_pc' = "ticker"
    /\ UNCHANGED <<ws_max_queries, ws_industry, ws_website, ws_i>>
    /\ UNCHANGED notWeb

\* without a Yahoo Finance result so far, the page of the guessed ticker is tried
WebYahooTicker ==
    /\ ws_pc = "ticker"
    /\ LET have == \E i \in 1..Len(ws_all_results) :
                      ws_all_results[i].source \in {"yahoo_auto", "yahoo_ticker"}
       IN \E constructed_url \in YahooUrls \cup {"none"} :
             ws_all_results' =
                IF have \/ constructed_url = "none" THEN ws_all_results
                ELSE Append(ws_all_results,
                            Scraped(constructed_url, "yahoo_ticker", "financial"))
    /\ ws_pc' = "website"
    /\ UNCHANGED <<ws_max_queries, ws_industry, ws_website, ws_i>>
    /\ UNCHANGED notWeb

\* the pages of company_website that answer with enough content are added
WebCompanyWebsite ==
    /\ ws_pc = "website"
    /\ \E pages \in SUBSET SitePages :
          ws_all_results' =
             IF ws_website /\ pages # {}
             THEN ws_all_results \o
                  [i \in 1..1 |-> Scraped(CHOOSE u \in pages : TRUE,
                                          "company_website", "company_website")]
             ELSE ws_all_results
    /\ ws_pc' = "alt"
    /\ ws_i' = 0
    /\ UNCHANGED <<ws_max_queries, ws_industry, ws_website>>
    /\ UNCHANGED notWeb

\* with fewer than 20 results, three "official website" searches, each adding
\* at most one scraped site
WebAltWebsite ==
    /\ ws_pc = "alt"
    /\ IF ws_i = 0 /\ Len(ws_all_results) >= 20
       THEN /\ ws_pc' = "industry"
            /\ ws_i' = 0
            /\ UNCHANGED ws_all_results
       ELSE IF ws_i < 3
       THEN /\ \E url \in AltUrls \cup {"none"} :
                  ws_all_results' =
                     IF DDGS_AVAILABLE /\ url # "none"
                     THEN Append(ws_all_results,
                                 Scraped(url, "company_website_auto", "company_website"))
                     ELSE ws_all_results
            /\ ws_i' = ws_i + 1
            /\ ws_pc' = "alt"
       ELSE /\ ws_pc' = "industry"
            /\ ws_i' = 0
            /\ UNCHANGED ws_all_results
    /\ UNCHANGED <<ws_max_queries, ws_industry, ws_website>>
    /\ UNCHANGED notWeb

\* duckduckgo_search called directly: [] without the library or when every
\* attempt failed, the formatted results otherwise
DuckDuckGoSearch(reply) ==
    IF ~DDGS_AVAILABLE \/ reply.raises THEN <<>>
    ELSE FormatResults("duckduckgo", reply.urls)

\* with an industry and fewer than 15 results, three industry queries go to
\* duckduckgo_search and their results are added
WebIndustryQueries ==
    /\ ws_pc = "industry"
    /\ IF ws_i = 0 /\ ~(ws_industry /\ Len(ws_all_results) < 15)
       THEN /\ ws_pc' = "quality"
            /\ ws_i' = 0
            /\ UNCHANGED ws_all_results
       ELSE IF ws_i < 3
       THEN /\ \E reply \in EngineOutcomes(WebReplies) :
                  ws_all_results' =
                     ws_all_results \o DuckDuckGoSearch(reply)
            /\ ws_i' = ws_i + 1
            /\ ws_pc' = "industry"
       ELSE /\ ws_pc' = "quality"
            /\ ws_i' = 0
            /\ UNCHANGED ws_all_results
    /\ UNCHANGED <<ws_max_queries, ws_industry, ws_website>>
    /\ UNCHANGED notWeb

\* a gate that looks at the score only
NeedsTargetedSearchScoreOnly(results) == QualityBelowHalf(results)

\* quality_metrics['quality_score'] < 0.5 and len(all_results) < 15
NeedsTargetedSearch(results) ==
    QualityBelowHalf(results) /\ Len(results) < 15

WebQualityGate ==
    /\ ws_pc = "quality"
    /\ ws_pc' = IF NeedsTargetedSearch(ws_all_results) THEN "targeted" ELSE "format"
    /\ ws_i' = 0
    /\ UNCHANGED <<ws_all_results, ws_max_queries, ws_industry, ws_website>>
    /\ UNCHANGED notWeb

\* each of the five targeted queries: intelligent_cascade_search(q,
\* target_results=3), filtered against all_results
WebTargetedQuery ==
    /\ ws_pc = "targeted"
    /\ ws_i < 5
    /\ \E replies \in [1..3 -> EngineOutcomes(WebReplies)] :
          ws_all_results' = MergeTargetedResults(ws_all_results, CascadeRun(3, replies))
    /\ ws_i' = ws_i + 1
    /\ UNCHANGED <<ws_pc, ws_max_queries, ws_industry, ws_website>>
    /\ UNCHANGED notWeb

WebTargetedDone ==
    /\ ws_pc = "targeted"
    /\ ws_i = 5
    /\ ws_pc' = "format"
    /\ UNCHANGED <<ws_all_results, ws_max_queries, ws_industry, ws_website, ws_i>>
    /\ UNCHANGED notWeb

\* the collection is complete and is rendered
WebFormat ==
    /\ ws_pc = "format"
    /\ ws_pc' = "done"
    /\ UNCHANGED <<ws_all_results, ws_max_queries, ws_industry, ws_website, ws_i>>
    /\ UNCHANGED notWeb

InitWeb ==
    /\ \E c \in WebConfigs :
          /\ DDGS_AVAILABLE = c[1]
          /\ GOOGLE_SEARCH_AVAILABLE = c[2]
          /\ SERPAPI_API_KEY = c[3]
    /\ CascadeInit
    /\ WebInit
    /\ StoreInit
    /\ BatchInit
    /\ FunctionsInit

NextWeb ==
    \/ WebCall
    \/ WebMainQuery
    \/ WebMainDone
    \/ WebYahooAuto
    \/ WebYahooTicker
    \/ WebCompanyWebsite
    \/ WebAltWebsite
    \/ WebIndustryQueries
    \/ WebQualityGate
    \/ WebTargetedQuery
    \/ WebTargetedDone
    \/ WebFormat

SpecWeb == InitWeb /\ [][NextWeb]_vars

(***************************************************************************)
(* The specifications of the record store and of the embedding cache.      *)
(***************************************************************************)
NextStore ==
    \/ ModifyFile
    \/ CallLoadPortfolioDf
    \/ CallLoadOrCreateEmbeddings
    \/ LoadCacheHit
    \/ LoadCacheMiss
    \/ LoadReturnCached
    \/ LoadReadActive
    \/ LoadReadClosed
    \/ LoadStoreDf
    \/ LoadStoreMtime
    \/ ReturnToCaller
    \/ EmbedEmptyTable
    \/ EmbedStat
    \/ EmbedCacheHit
    \/ EmbedCacheMiss
    \/ EmbedGenerate
    \/ EmbedWriteHead
    \/ EmbedWriteBody

\* one request at a time
InitStoreSeq ==
    /\ ConfigFull /\ CascadeInit /\ WebInit /\ BatchInit /\ FunctionsInit
    /\ StoreStart /\ callers = {1}

SpecStoreSeq == InitStoreSeq /\ [][NextStore]_vars

\* the endpoints are plain functions, which the server runs on a thread pool
InitStore ==
    /\ ConfigFull /\ CascadeInit /\ WebInit /\ BatchInit /\ FunctionsInit
    /\ StoreStart /\ callers = Threads

SpecStore == InitStore /\ [][NextStore]_vars

InitBatch ==
    ConfigFull /\ CascadeInit /\ WebInit /\ StoreInit /\ BatchStart /\ FunctionsInit

NextBatch == BatchRun

SpecBatch == InitBatch /\ [][NextBatch]_vars

(***************************************************************************)
(* Text, as the scoring code uses it.  A text is a sequence of one-letter  *)
(* strings; None and the empty text are both <<>> (every use is either a   *)
(* truth test or goes through _safe_str, which maps None to "").           *)
(***************************************************************************)
\* str.lower() on the letters the texts of the model are written in
LowerChar(c) ==
    CASE c = "A" -> "a" [] c = "B" -> "b" [] c = "D" -> "d"
      [] c = "C" -> "c" [] c = "G" -> "g" [] c = "M" -> "m"
      [] c = "R" -> "r" [] c = "S" -> "s" [] OTHER -> c

Lower(s) == [i \in 1..Len(s) |-> LowerChar(s[i])]

\* str.strip()
Strip(s) ==
    LET inked == {i \in 1..Len(s) : s[i] # " "}
    IN IF inked = {} THEN <<>>
       ELSE SubSeq(s, CHOOSE i \in inked : \A j \in inked : i <= j,
                      CHOOSE i \in inked : \A j \in inked : i >= j)

\* _safe_str (ff.py 116-122) on a text or None
safe_str(x) == Strip(x)

\* sub in s
Contains(sub, s) ==
    \E i \in 0..(Len(s) - Len(sub)) : SubSeq(s, i + 1, i + Len(sub)) = sub

\* set(s.split()): the maximal runs of letters between white space
Split(s) ==
    {SubSeq(s, i, j) : <<i, j>> \in
        {p \in (1..Len(s)) \X (1..Len(s)) :
            /\ p[1] <= p[2]
            /\ \A k \in p[1]..p[2] : s[k] # " "
            /\ (p[1] = 1 \/ s[p[1] - 1] = " ")
            /\ (p[2] = Len(s) \/ s[p[2] + 1] = " ")}}

(***************************************************************************)
(* cosine_similarity_batch (ff.py 236-245).  An embedding is a vector of   *)
(* two integers whose norm is an integer, so that norms and quotients are  *)
(* exact; a similarity is the fraction num / den.                          *)
(***************************************************************************)
Dot(a, b) == a[1] * b[1] + a[2] * b[2]

\* np.linalg.norm
Norm(v) == CHOOSE r \in 0..Dot(v, v) : r * r = Dot(v, v)

\* the elementwise quotient of two arrays: dividing by zero gives nan or inf
\* and a warning, not an exception
Quotient(n, d) ==
    IF d = 0 THEN [num |-> 0, den |-> 1, div0 |-> TRUE]
    ELSE [num |-> n, den |-> d, div0 |-> FALSE]

\* np.zeros: the similarity 0.0
ZeroSimilarity == [num |-> 0, den |-> 1, div0 |-> FALSE]

\* the quotient taken without looking at the norms
CosineUnguarded(query_vec, all_vecs) ==
    [i \in 1..Len(all_vecs) |->
        Quotient(Dot(all_vecs[i], query_vec), Norm(all_vecs[i]) * Norm(query_vec))]

cosine_similarity_batch(query_vec, all_vecs) ==
    LET query_norm == Norm(query_vec)
        all_norms == [i \in 1..Len(all_vecs) |-> Norm(all_vecs[i])]
    IN IF query_norm = 0 \/ \E i \in 1..Len(all_vecs) : all_norms[i] = 0
       THEN [i \in 1..Len(all_vecs) |-> ZeroSimilarity]
       ELSE [i \in 1..Len(all_vecs) |->
                Quotient(Dot(all_vecs[i], query_vec), all_norms[i] * query_norm)]

(***************************************************************************)
(* score_row_with_reasoning (ff.py 247-349).  Points are integers, scores  *)
(* that the code rounds to one decimal are held in tenths.                 *)
(***************************************************************************)
\* round(n / d, 1) in tenths, for d > 0 (no quotient of the model falls
\* half way between two tenths)
RoundTenths(n, d) == (20 * n + d) \div (2 * d)

\* an entry of reasoning_bullets: the kind of line and the number it shows
Bullet(line, n) == [line |-> line, n |-> n]

\* lines 264-268, row_embedding.reshape(1, -1): the similarity of one pair
SemanticSimilarity(query_embedding, row_embedding) ==
    cosine_similarity_batch(query_embedding, <<row_embedding>>)[1]

\* an industry signal that only counts shared keywords
IndustryAlignmentKeywordsOnly(row, industry) ==
    LET overlap == Cardinality(Split(Lower(safe_str(industry)))
                               \cap Split(Lower(safe_str(row.industry))))
    IN IF industry # <<>> /\ overlap > 0
       THEN [score |-> 10, bullets |-> <<Bullet("Industry Relevance", overlap)>>]
       ELSE [score |-> 0, bullets |-> <<>>]

\* lines 270-284
IndustryAlignment(row, industry) ==
    LET row_industry == Lower(safe_str(row.industry))
        query_words == Split(Lower(safe_str(industry)))
        row_words == Split(row_industry)
        overlap == Cardinality(query_words \cap row_words)
    IN IF industry # <<>> /\ Contains(Lower(safe_str(industry)), row_industry)
       THEN [score |-> 20, bullets |-> <<Bullet("Industry Match", 0)>>]
       ELSE IF industry # <<>> /\ overlap > 0
       THEN [score |-> 10, bullets |-> <<Bullet("Industry Relevance", overlap)>>]
       ELSE [score |-> 0, bullets |-> <<>>]

\* lines 286-302
TechnologyMatch(row, technology) ==
    LET row_tech == Lower(safe_str(row.technologies))
        tech_query == Lower(safe_str(technology))
        overlap == Cardinality(Split(tech_query) \cap Split(row_tech))
    IN IF technology = <<>> THEN [score |-> 0, bullets |-> <<>>]
       ELSE IF Contains(tech_query, row_tech)
       THEN [score |-> 20, bullets |-> <<Bullet("Technology Match", 0)>>]
       ELSE IF overlap > 0
       THEN [score |-> 10, bullets |-> <<Bullet("Technology Relevance", overlap)>>]
       ELSE [score |-> 0, bullets |-> <<>>]

\* lines 304-315; the two texts are held by their lengths
BusinessValue(row) ==
    LET strong == row.value_add > 100
        proven == row.key_deliverables > 50
    IN [score |-> (IF strong THEN 5 ELSE 0) + (IF proven THEN 5 ELSE 0),
        bullets |-> (IF strong THEN <<Bullet("Strong Value Proposition", 0)>> ELSE <<>>)
                    \o (IF proven THEN <<Bullet("Proven Results", 0)>> ELSE <<>>)]

\* lines 317-320
StatusBonus(row) ==
    IF row.status = "active"
    THEN [score |-> 5, bullets |-> <<Bullet("Active Project", 0)>>]
    ELSE [score |-> 0, bullets |-> <<>>]

\* lines 322-333
FocusAlignment(row, focus) ==
    LET focus_lower == Lower(safe_str(focus))
        business_case == Lower(safe_str(row.business_case))
        problem_stmt == Lower(safe_str(row.problem_or_opportunity_statement))
        words == {w \in Split(focus_lower) : Len(w) > 3}
        focus_in_business == \E w \in words : Contains(w, business_case)
        focus_in_problem == \E w \in words : Contains(w, problem_stmt)
    IN IF focus # <<>> /\ (focus_in_business \/ focus_in_problem)
       THEN [score |-> 5, bullets |-> <<Bullet("Focus Area Alignment", 0)>>]
       ELSE [score |-> 0, bullets |-> <<>>]

\* lines 260-349 with the similarity of line 265 given
ScoreWithSimilarity(row, semantic_sim, industry, technology, focus) ==
    LET ind == IndustryAlignment(row, industry)
        tech == TechnologyMatch(row, technology)
        value == BusinessValue(row)
        status == StatusBonus(row)
        foc == FocusAlignment(row, focus)
        points == ind.score + tech.score + value.score + status.score + foc.score
        \* match_score = match_num / semantic_sim.den
        match_num == 40 * semantic_sim.num + points * semantic_sim.den
        percent_num == Min(100 * semantic_sim.den, match_num)
        semantic_pct == RoundTenths(100 * semantic_sim.num, semantic_sim.den)
        reasoning_bullets ==
            <<Bullet("Semantic Match", semantic_pct)>>
            \o ind.bullets \o tech.bullets \o value.bullets
            \o status.bullets \o foc.bullets
    IN [match_score |-> RoundTenths(percent_num, semantic_sim.den),
        semantic_similarity |-> semantic_pct,
        detailed_reasoning |->
            IF reasoning_bullets = <<>>
            THEN <<Bullet("General portfolio relevance", 0)>>
            ELSE reasoning_bullets,
        reasoning_bullets |-> reasoning_bullets,
        raw_score |-> RoundTenths(match_num, semantic_sim.den),
        division_by_zero |-> semantic_sim.div0]

score_row_with_reasoning(row, query_embedding, row_embedding, industry, technology, focus) ==
    ScoreWithSimilarity(row, SemanticSimilarity(query_embedding, row_embedding),
                        industry, technology, focus)

\* the texts of the model
AB == <<"A", "b">>
A_B == <<"a", " ", "b">>
DataLake == <<"D", "a", "t", "a", " ", "l", "a", "k", "e">>
BigData == <<"b", "i", "g", "d", "a", "t", "a">>
Ai == <<"a", "i">>
AiData == <<"a", "i", " ", "D", "a", "t", "a">>

\* the records score_row_with_reasoning is applied to; the cells of a loaded
\* table went through _safe_str (line 154)
ScoreRows ==
    [industry : {AB, A_B, <<>>},
     technologies : {AB, A_B},
     value_add : {100, 101},
     key_deliverables : {50, 51},
     status : {"active", "closed"},
     business_case : {<<>>, DataLake},
     problem_or_opportunity_statement : {Ai, BigData}]

\* the industry, technology and focus of a request
QueryIndustries ==
    {<<>>, AB, <<"b", " ", "a">>, <<"a", " ", "c">>, <<" ", "a">>}
QueryTechnologies == {<<>>, <<"a", "b">>, <<"b", " ", "a">>}
QueryFocuses == {<<>>, AiData, Ai}

\* embeddings of the query and of a record
QueryVectors == {<<0, 0>>, <<3, 4>>}
RowVectors == {<<0, 0>>, <<3, 4>>, <<4, 3>>, <<-3, -4>>, <<5, 12>>, <<-4, 3>>}

ScoreStart ==
    /\ sc_pc = "call"
    /\ sc_args \in [row : ScoreRows,
                    query_embedding : QueryVectors,
                    row_embedding : RowVectors,
                    industry : QueryIndustries,
                    technology : QueryTechnologies,
                    focus : QueryFocuses]
    /\ sc_result = <<>>

ScoreRun ==
    /\ sc_pc = "call"
    /\ sc_pc' = "returned"
    /\ sc_result' = score_row_with_reasoning(sc_args.row, sc_args.query_embedding,
                                             sc_args.row_embedding, sc_args.industry,
                                             sc_args.technology, sc_args.focus)
    /\ UNCHANGED sc_args
    /\ UNCHANGED notScore

InitScore ==
    /\ ConfigFull /\ CascadeInit /\ WebInit /\ StoreInit /\ BatchInit
    /\ ScoreStart /\ SelectInit /\ RetryInit /\ QualityInit /\ BundlesInit

NextScore == ScoreRun

SpecScore == InitScore /\ [][NextScore]_vars

(***************************************************************************)
(* select_rows_for_summary (ff.py 1588-1676) on the table and embeddings   *)
(* load_or_create_embeddings returned, one embedding per record.           *)
(***************************************************************************)
\* the largest table select_rows_for_summary is run on
MaxRecords == 3

Indices(df) == [i \in 1..Len(df) |-> i]

\* lines 1634-1640: the positions the industry pre-filter keeps
IndustryPreFilter(df, industry) ==
    LET industry_lower == Lower(industry)
        Keeps(i) == Contains(industry_lower, Lower(safe_str(df[i].industry)))
    IN IF industry # <<>> THEN SelectSeq(Indices(df), Keeps) ELSE Indices(df)

\* a pre-filter that is kept when it leaves nothing
CandidateIndicesFilterOnly(df, industry) == IndustryPreFilter(df, industry)

\* lines 1632-1643
CandidateIndices(df, industry) ==
    IF IndustryPreFilter(df, industry) = <<>> THEN Indices(df)
    ELSE IndustryPreFilter(df, industry)

\* a candidate scored with its entry of the similarities of line 1630
ScoreCandidateFromBatch(df, embeddings, idx, a) ==
    ScoreWithSimilarity(df[idx],
                        cosine_similarity_batch(a.query_embedding, embeddings)[idx],
                        a.industry, a.technology, a.focus)

\* lines 1648-1660: the candidate is scored with its own embedding (the
\* similarities of line 1630 are not used)
ScoreCandidate(df, embeddings, idx, a) ==
    score_row_with_reasoning(df[idx], a.query_embedding, embeddings[idx],
                             a.industry, a.technology, a.focus)

\* lines 1646-1664; idx records the position of the record in the table
ScoredRows(df, embeddings, a) ==
    LET candidate_indices == CandidateIndices(df, a.industry)
    IN [k \in 1..Len(candidate_indices) |->
           [idx |-> candidate_indices[k],
            row |-> df[candidate_indices[k]],
            scoring |-> ScoreCandidate(df, embeddings, candidate_indices[k], a)]]

\* an ascending sort read backwards
RECURSIVE SortAscendingReversed(_)
SortAscendingReversed(rows) ==
    IF rows = <<>> THEN <<>>
    ELSE LET rest == SortAscendingReversed(Tail(rows))
             ahead == {k \in 1..Len(rest) :
                          rest[k].scoring.match_score >= Head(rows).scoring.match_score}
         IN SubSeq(rest, 1, Cardinality(ahead)) \o <<Head(rows)>>
            \o SubSeq(rest, Cardinality(ahead) + 1, Len(rest))

\* line 1667, list.sort(key=match_score, reverse=True): a stable sort, the
\* elements of equal key stay in their order
RECURSIVE SortByMatchScore(_)
SortByMatchScore(rows) ==
    IF rows = <<>> THEN <<>>
    ELSE LET rest == SortByMatchScore(Tail(rows))
             ahead == {k \in 1..Len(rest) :
                          rest[k].scoring.match_score > Head(rows).scoring.match_score}
         IN SubSeq(rest, 1, Cardinality(ahead)) \o <<Head(rows)>>
            \o SubSeq(rest, Cardinality(ahead) + 1, Len(rest))

\* line 1670, scored_rows[:limit]; a negative limit counts from the end
TopMatches(scored_rows, limit) ==
    IF limit >= 0 THEN SubSeq(scored_rows, 1, Min(limit, Len(scored_rows)))
    ELSE SubSeq(scored_rows, 1, Len(scored_rows) + limit)

NoSelection == [scored |-> FALSE, candidate_indices |-> <<>>,
                scored_rows |-> <<>>, top_matches |-> <<>>]

\* query_embedding "error": the embedding request of lines 1619-1627 raises
select_rows_for_summary(df, embeddings, a) ==
    IF df = <<>> \/ Len(embeddings) = 0 THEN NoSelection
    ELSE IF a.query_embedding = <<"error">> THEN NoSelection
    ELSE [scored |-> TRUE,
          candidate_indices |-> CandidateIndices(df, a.industry),
          scored_rows |-> ScoredRows(df, embeddings, a),
          top_matches |-> TopMatches(SortByMatchScore(ScoredRows(df, embeddings, a)),
                                     a.limit)]

\* the records of the tables searched, each with its embedding
SelectRecords ==
    [row : [industry : {AB, A_B},
            technologies : {AB},
            value_add : {100},
            key_deliverables : {50},
            status : {"active", "closed"},
            business_case : {<<>>},
            problem_or_opportunity_statement : {Ai}],
     embedding : {<<0, 0>>, <<3, 4>>, <<4, 3>>}]

SelectTables == SeqsUpTo(SelectRecords, MaxRecords)

\* the requests: an industry that some records contain, one that none
\* contains, one that none contains unless it is stripped, none at all; the
\* query embedding or the failure to get one
SelectRequests ==
    [industry : {<<>>, AB, <<"a", " ", "c">>, <<" ", "a">>},
     technology : {<<>>},
     focus : {<<>>},
     query_embedding : {<<"error">>, <<0, 0>>, <<3, 4>>},
     limit : {-1, 2, 6}]

SelectStart ==
    /\ sel_pc = "call"
    /\ \E table \in SelectTables, a \in SelectRequests :
          sel_args = [df |-> [i \in 1..Len(table) |-> table[i].row],
                      embeddings |-> [i \in 1..Len(table) |-> table[i].embedding],
                      request |-> a]
    /\ sel_out = <<>>

SelectRun ==
    /\ sel_pc = "call"
    /\ sel_pc' = "returned"
    /\ sel_out' = select_rows_for_summary(sel_args.df, sel_args.embeddings,
                                          sel_args.request)
    /\ UNCHANGED sel_args
    /\ UNCHANGED notSelect

InitSelect ==
    /\ ConfigFull /\ CascadeInit /\ WebInit /\ StoreInit /\ BatchInit
    /\ ScoreInit /\ SelectStart /\ RetryInit /\ QualityInit /\ BundlesInit

NextSelect == SelectRun

SpecSelect == InitSelect /\ [][NextSelect]_vars

(***************************************************************************)
(* duckduckgo_search (ff.py 467-515): the retry loop.                      *)
(***************************************************************************)
\* the largest retries a caller passes (the default is 3)
MaxRetries == 4

\* the hits ddgs.text returns: whether there is a title, the URL ("" for
\* none) and the length of the body
DdgReplies == {<<>>,
               <<[title |-> TRUE, href |-> "u1", body |-> 300]>>,
               <<[title |-> TRUE, href |-> "u1", body |-> 300],
                 [title |-> TRUE, href |-> "u2", body |-> 20]>>,
               <<[title |-> TRUE, href |-> "u2", body |-> 19],
                 [title |-> TRUE, href |-> "u3", body |-> 300],
                 [title |-> FALSE, href |-> "u1", body |-> 40],
                 [title |-> TRUE, href |-> "", body |-> 40]>>}

\* lines 478-496: hits without title or URL or with a body of fewer than 20
\* characters are skipped
FormatDdgResults(hits) ==
    LET Kept(h) == h.title /\ h.href # "" /\ h.body >= 20
        kept == SelectSeq(hits, Kept)
    IN [i \in 1..Len(kept) |->
           [url |-> kept[i].href, source |-> "DuckDuckGo Search",
            category |-> "web_search"]]

\* lines 501-507; rate_limited: "rate" or "limit" occurs in the message
WaitTime(attempt, rate_limited) ==
    IF rate_limited THEN 5 + 2 ^ attempt ELSE 2 ^ attempt

\* a loop that sleeps after every failed attempt
SleepsAfterEveryFailure(attempt, retries) == TRUE

\* line 509
SleepsAfterFailure(attempt, retries) == attempt < retries - 1

Attempt(n, outcome) == [ev |-> "attempt", n |-> n, outcome |-> outcome, secs |-> 0]
Sleep(n, secs) == [ev |-> "sleep", n |-> n, outcome |-> "", secs |-> secs]

RetryStart ==
    /\ rt_pc = "idle"
    /\ rt_retries = 0
    /\ rt_attempt = 0
    /\ rt_log = <<>>
    /\ rt_result = <<>>

\* a call duckduckgo_search(query, retries=retries); lines 469-473: without
\* the library nothing is tried, and range(0) gives no attempt
DdgCall ==
    /\ rt_pc \in {"idle", "returned"}
    /\ \E retries \in 0..MaxRetries :
          /\ rt_retries' = retries
          /\ rt_pc' = IF DDGS_AVAILABLE /\ retries > 0 THEN "attempt" ELSE "returned"
    /\ rt_attempt' = 0
    /\ rt_log' = <<>>
    /\ rt_result' = <<>>
    /\ UNCHANGED notRetry

\* lines 475-498: the request of this attempt answers; its hits are
\* formatted and returned
DdgAttemptReturns ==
    /\ rt_pc = "attempt"
    /\ \E hits \in DdgReplies :
          rt_result' = FormatDdgResults(hits)
    /\ rt_log' = Append(rt_log, Attempt(rt_attempt, "ok"))
    /\ rt_pc' = "returned"
    /\ UNCHANGED <<rt_retries, rt_attempt>>
    /\ UNCHANGED notRetry

\* lines 500-515: the request raises; the wait, unless this was the last
\* attempt, then the next attempt or the empty list
DdgAttemptRaises ==
    /\ rt_pc = "attempt"
    /\ \E rate_limited \in BOOLEAN :
          rt_log' = rt_log
                    \o <<Attempt(rt_attempt, IF rate_limited THEN "rate" ELSE "other")>>
                    \o (IF SleepsAfterFailure(rt_attempt, rt_retries)
                        THEN <<Sleep(rt_attempt, WaitTime(rt_attempt, rate_limited))>>
                        ELSE <<>>)
    /\ rt_attempt' = rt_attempt + 1
    /\ rt_pc' = IF rt_attempt + 1 < rt_retries THEN "attempt" ELSE "returned"
    /\ rt_result' = <<>>
    /\ UNCHANGED rt_retries
    /\ UNCHANGED notRetry

InitRetry ==
    /\ DDGS_AVAILABLE \in BOOLEAN
    /\ GOOGLE_SEARCH_AVAILABLE = TRUE
    /\ SERPAPI_API_KEY = TRUE
    /\ CascadeInit /\ WebInit /\ StoreInit /\ BatchInit
    /\ ScoreInit /\ SelectInit /\ RetryStart /\ QualityInit /\ BundlesInit

NextRetry ==
    \/ DdgCall
    \/ DdgAttemptReturns
    \/ DdgAttemptRaises

SpecRetry == InitRetry /\ [][NextRetry]_vars

\* an attempt under way ends: the request is answered or raises (the client
\* library gives up on a request that gets no answer) and time.sleep returns
SpecRetryFair ==
    SpecRetry /\ WF_vars(DdgAttemptReturns \/ DdgAttemptRaises)

(***************************************************************************)
(* validate_search_quality (ff.py 717-780) on result collections of its    *)
(* own.  A result is held by its URL (a number), the category the chain of *)
(* lines 734-746 gives it and the length of its snippet.                   *)
(***************************************************************************)
\* the largest result collection validated
MaxResults == 22
\* target_categories, which no caller passes
target_categories == 5

QualityClasses == <<"financial", "leadership", "news", "company_info", "general">>

\* the snippet lengths of the results at odd and at even positions
QualitySnippets == {<<0, 0>>, <<150, 150>>, <<400, 100>>, <<400, 400>>}

\* a collection of n results over u URLs and k categories
QualityResults(n, u, k, lens) ==
    [i \in 1..n |-> [url |-> ((i - 1) % u) + 1,
                     class |-> QualityClasses[((i - 1) % k) + 1],
                     snippet |-> lens[((i - 1) % 2) + 1]]]

\* the URLs that occur more than once, counted in place of the distinct ones
RepeatedUrls(all_results) ==
    Len(all_results) - Cardinality({all_results[i].url : i \in 1..Len(all_results)})

\* line 749: len(set(r.get("url", "") for r in all_results))
UniqueUrls(all_results) ==
    Cardinality({all_results[i].url : i \in 1..Len(all_results)})

\* lines 730-746: len(categories)
CategoriesCovered(all_results) ==
    Cardinality({all_results[i].class : i \in 1..Len(all_results)})

\* line 750: sum(len(r.get("snippet", "")) for r in all_results)
SnippetTotal(all_results) ==
    LET sum[i \in 0..Len(all_results)] ==
            IF i = 0 THEN 0 ELSE sum[i - 1] + all_results[i].snippet
    IN sum[Len(all_results)]

\* a sum of the three parts that is not capped
NotCapped(num, den) == num

\* line 753: min(1.0, ...) on the fraction num / den
CapAtOne(num, den) == Min(num, den)

\* lines 722-780; quality_score is the fraction quality_num / quality_den
\* with quality_den = 1000 * target * len(all_results)
validate_search_quality(all_results, target) ==
    IF all_results = <<>>
    THEN [quality_num |-> 0, quality_den |-> 1, total_results |-> 0,
          unique_urls |-> 0, categories_covered |-> 0, snippet_total |-> 0]
    ELSE LET n == Len(all_results)
             unique_urls == UniqueUrls(all_results)
             categories == CategoriesCovered(all_results)
             den == 1000 * target * n
             \* (unique_urls / 20.0) * 0.4
             url_diversity == 20 * unique_urls * target * n
             \* (len(categories) / target_categories) * 0.3
             category_coverage == 300 * categories * n
             \* (min(avg_snippet_length, 300) / 300.0) * 0.3
             content_richness == Min(SnippetTotal(all_results), 300 * n) * target
         IN [quality_num |-> CapAtOne(url_diversity + category_coverage
                                      + content_richness, den),
             quality_den |-> den,
             total_results |-> n,
             unique_urls |-> unique_urls,
             categories_covered |-> categories,
             snippet_total |-> SnippetTotal(all_results)]

QualityStart ==
    /\ ql_pc = "call"
    /\ \E n \in 0..MaxResults, lens \in QualitySnippets :
          \/ n = 0 /\ ql_all_results = <<>>
          \/ \E u \in 1..n, k \in 1..Min(n, Len(QualityClasses)) :
                ql_all_results = QualityResults(n, u, k, lens)
    /\ ql_metrics = <<>>

QualityRun ==
    /\ ql_pc = "call"
    /\ ql_pc' = "returned"
    /\ ql_metrics' = validate_search_quality(ql_all_results, target_categories)
    /\ UNCHANGED ql_all_results
    /\ UNCHANGED notQuality

InitQuality ==
    /\ ConfigFull /\ CascadeInit /\ WebInit /\ StoreInit /\ BatchInit
    /\ ScoreInit /\ SelectInit /\ RetryInit /\ QualityStart /\ BundlesInit

NextQuality == QualityRun

SpecQuality == InitQuality /\ [][NextQuality]_vars

(***************************************************************************)
(* The rendering at the end of comprehensive_web_search (ff.py 1139-1174)  *)
(* on collections of its own.  A result is held by its position in         *)
(* all_results and its category tag.                                       *)
(***************************************************************************)
\* the largest collection rendered
MaxFormatResults == 12

FormatCategories == {"web_search", "financial"}

\* lines 1143-1148: the results of one category, in their order
CategoryGroup(all_results, cat) ==
    LET Tagged(r) == r.category = cat
    IN SelectSeq(all_results, Tagged)

\* the categories in the order in which the dictionary got their keys
RECURSIVE CategoryOrder(_, _)
CategoryOrder(all_results, seen) ==
    IF all_results = <<>> THEN <<>>
    ELSE IF Head(all_results).category \in seen
    THEN CategoryOrder(Tail(all_results), seen)
    ELSE <<Head(all_results).category>>
         \o CategoryOrder(Tail(all_results), seen \cup {Head(all_results).category})

\* a block that takes every result of its category
CategoryContentWhole(results) == results

\* line 1153: results[:10]
CategoryContent(results) == SubSeq(results, 1, Min(10, Len(results)))

\* line 1162: category.upper().replace('_', ' ') + " INTELLIGENCE"
SectionLabel(cat) ==
    CASE cat = "web_search" -> "=== WEB SEARCH INTELLIGENCE ==="
      [] cat = "financial" -> "=== FINANCIAL INTELLIGENCE ==="
      [] OTHER -> "=== GENERAL INTELLIGENCE ==="

\* lines 1140-1162: formatted_sections, one labeled block per category
FormattedSections(all_results) ==
    LET order == CategoryOrder(all_results, {})
    IN [k \in 1..Len(order) |->
           [label |-> SectionLabel(order[k]),
            category |-> order[k],
            content |-> CategoryContent(CategoryGroup(all_results, order[k]))]]

FormatStart ==
    /\ fm_pc = "call"
    /\ \E n \in 0..MaxFormatResults :
          \E cats \in [1..n -> FormatCategories] :
             fm_all_results = [i \in 1..n |-> [url |-> i, category |-> cats[i]]]
    /\ fm_sections = <<>>

FormatRun ==
    /\ fm_pc = "call"
    /\ fm_pc' = "returned"
    /\ fm_sections' = FormattedSections(fm_all_results)
    /\ UNCHANGED fm_all_results
    /\ UNCHANGED notFormat

InitFormat ==
    /\ ConfigFull /\ CascadeInit /\ WebInit /\ StoreInit /\ BatchInit
    /\ ScoreInit /\ SelectInit /\ RetryInit /\ QualityInit
    /\ FormatStart /\ IntelInit /\ EndpointInit

NextFormat == FormatRun

SpecFormat == InitFormat /\ [][NextFormat]_vars

(***************************************************************************)
(* Intelligence bundles: ai_extract_intelligence (ff.py 1221-1362) and     *)
(* _normalize_legacy_intel (ff.py 1176-1218).  A JSON value is held with   *)
(* its kind; an object is a function from its keys to values, a text is a  *)
(* sequence of symbols.                                                    *)
(***************************************************************************)
\* the longest completion text, one character past the cut of line 1301
MaxRawLen == 501
\* the longest legacy financial_data list
MaxFinancialItems == 2
\* the longest array of a completion reply, one past the limit of 15
MaxArrayLen == 16

Null == [t |-> "null"]
Str(s) == [t |-> "str", v |-> s]
Num(n) == [t |-> "num", v |-> n]
Bool(b) == [t |-> "bool", v |-> b]
List(l) == [t |-> "list", v |-> l]
Dict(d) == [t |-> "dict", v |-> d]
Word(w) == <<w>>
EmptyList == List(<<>>)
EmptyDict == Dict(<<>>)

\* Python truth of a value
Truthy(x) ==
    CASE x.t = "null" -> FALSE
      [] x.t = "str" -> x.v # <<>>
      [] x.t = "num" -> x.v # 0
      [] x.t = "bool" -> x.v
      [] x.t = "list" -> x.v # <<>>
      [] x.t = "dict" -> DOMAIN x.v # {}

IsDict(x) == x.t = "dict"
\* key in data
Has(data, key) == key \in DOMAIN data.v
\* data.get(key, default)
Get(data, key, default) == IF Has(data, key) THEN data.v[key] ELSE default
\* data[key] = x
Put(data, key, x) ==
    Dict([k \in DOMAIN data.v \cup {key} |-> IF k = key THEN x ELSE data.v[k]])
\* len(x) is defined
HasLen(x) == x.t \in {"str", "list", "dict"}
\* x[:limit]
Prefix(x, limit) == SubSeq(x, 1, Min(limit, Len(x)))

\* the keys of an object, as iteration yields them
RECURSIVE KeysOf(_)
KeysOf(keys) ==
    IF keys = {} THEN <<>>
    ELSE LET k == CHOOSE k \in keys : TRUE
         IN <<Str(Word(k))>> \o KeysOf(keys \ {k})

ErrorBundle(message) == Dict([error |-> Str(Word(message))])

\* line 1301 without the cut
RawWhole(raw) == raw

\* line 1301: raw[:500]
RawPrefix(raw) == Prefix(raw, 500)

\* lines 1310-1314: the default financial_data of the current schema
DefaultFinancialData ==
    Dict([revenue |-> Null, market_cap |-> Null, growth_rate |-> Null,
          stock_price |-> Null, pe_ratio |-> Null, dividend_yield |-> Null,
          other_metrics |-> EmptyList, source_url |-> Null, confidence |-> Num(0)])

DefaultConfirmedInferred == Dict([confirmed |-> EmptyList, inferred |-> EmptyList])

\* lines 1305-1307: ensure(key, default)
Ensure(data, key, default) ==
    IF ~Has(data, key) \/ data.v[key] = Null THEN Put(data, key, default) ELSE data

\* lines 1310-1327: the defaults, in the order of the calls
SchemaDefaults ==
    << <<"financial_data", DefaultFinancialData>>,
       <<"technologies", DefaultConfirmedInferred>>,
       <<"vendors_partners", DefaultConfirmedInferred>>,
       <<"recent_projects", EmptyList>>,
       <<"announcements", EmptyList>>,
       <<"strategic_focus", EmptyList>>,
       <<"competitive_landscape", EmptyList>>,
       <<"tech_roadmap", EmptyList>>,
       <<"leadership_team", EmptyList>>,
       <<"it_infrastructure_summary", Null>>,
       <<"business_context", Null>>,
       <<"market_position", Null>>>>

RECURSIVE EnsureAll(_, _)
EnsureAll(data, defaults) ==
    IF defaults = <<>> THEN data
    ELSE EnsureAll(Ensure(data, Head(defaults)[1], Head(defaults)[2]), Tail(defaults))

\* line 1329: financial_data.get("confidence", 0.0) is defined
ConfidenceReadable(data) == Has(data, "confidence_score") \/ IsDict(data.v["financial_data"])

\* lines 1329-1330
EnsureConfidence(data) ==
    IF Has(data, "confidence_score") THEN data
    ELSE Put(data, "confidence_score", Get(data.v["financial_data"], "confidence", Num(0)))

\* lines 1333-1336: array_limits
ArrayLimits ==
    << <<"recent_projects", 15>>, <<"announcements", 15>>, <<"strategic_focus", 15>>,
       <<"competitive_landscape", 10>>, <<"tech_roadmap", 12>>, <<"leadership_team", 8>>>>

\* lines 1338-1340
RECURSIVE Truncate(_, _)
Truncate(data, limits) ==
    IF limits = <<>> THEN data
    ELSE LET key == Head(limits)[1]
             limit == Head(limits)[2]
             cut == IF data.v[key].t = "list" /\ Len(data.v[key].v) > limit
                    THEN Put(data, key, List(Prefix(data.v[key].v, limit)))
                    ELSE data
         IN Truncate(cut, Tail(limits))

\* lines 1343-1359: the diagnostics line can be computed
DiagnosticsComputable(data) ==
    /\ \A key \in {"technologies", "vendors_partners"} :
          /\ IsDict(data.v[key])
          /\ HasLen(Get(data.v[key], "confirmed", EmptyList))
          /\ HasLen(Get(data.v[key], "inferred", EmptyList))
    /\ \A key \in {"announcements", "recent_projects", "strategic_focus",
                   "tech_roadmap", "leadership_team"} : HasLen(data.v[key])
    /\ data.v["confidence_score"].t \in {"num", "bool"}

\* lines 1221-1362, from the completion's reply on
ai_extract_intelligence(reply) ==
    IF reply.kind = "no_data" THEN ErrorBundle("No data to analyze")
    ELSE IF reply.kind = "raises" THEN ErrorBundle("exception")
    ELSE LET raw == Strip(reply.content)
         IN IF ~reply.valid
            THEN Dict([error |-> Str(Word("parse_error")), raw |-> Str(RawPrefix(raw))])
            ELSE IF ~IsDict(reply.data) THEN ErrorBundle("exception")
            ELSE LET ensured == EnsureAll(reply.data, SchemaDefaults)
                 IN IF ~ConfidenceReadable(ensured) THEN ErrorBundle("exception")
                    ELSE LET data == Truncate(EnsureConfidence(ensured), ArrayLimits)
                         IN IF DiagnosticsComputable(data) THEN data
                            ELSE ErrorBundle("exception")

\* a test for the current schema by the keys only the extraction sets
MarkerKeysOfExtraction ==
    {"competitive_landscape", "tech_roadmap", "leadership_team", "market_position"}

\* line 1181: the keys that mark the current schema
MarkerKeys ==
    {"strategic_focus", "vendors_partners", "it_infrastructure_summary", "business_context"}

\* line 1183: data.get("financial_data", []) or [], as the loop reads it
FinancialList(data) ==
    LET given == Get(data, "financial_data", EmptyList)
    IN IF ~Truthy(given) THEN <<>>
       ELSE IF IsDict(given) THEN KeysOf(DOMAIN given.v)
       ELSE given.v

\* lines 1184-1191
LegacyFinancialObj ==
    [revenue |-> Null, market_cap |-> Null, growth_rate |-> Null,
     other_metrics |-> <<>>, source_url |-> Null, confidence |-> Num(4)]

Revenue == <<"r", "e", "v", "e", "n", "u", "e">>
Market == <<"m", "a", "r", "k", "e", "t">>
Cap == <<"c", "a", "p">>
Growth == <<"g", "r", "o", "w", "t", "h">>
Cagr == <<"c", "a", "g", "r">>

\* lines 1193-1205: one pass of the loop
MigrateItem(obj, item) ==
    LET metric == IF IsDict(item) THEN Get(item, "metric", Null) ELSE Null
        value == IF IsDict(item) THEN Get(item, "value", Null) ELSE Null
        src == IF IsDict(item) THEN Get(item, "source_url", Null) ELSE Null
        low == Lower(metric.v)
        source == IF Truthy(src) THEN src ELSE obj.source_url
    IN IF ~Truthy(metric) \/ ~Truthy(value) THEN obj
       ELSE IF Contains(low, Revenue) /\ ~Truthy(obj.revenue)
       THEN [obj EXCEPT !.revenue = value, !.source_url = source]
       ELSE IF Contains(low, Market) /\ Contains(low, Cap) /\ ~Truthy(obj.market_cap)
       THEN [obj EXCEPT !.market_cap = value, !.source_url = source]
       ELSE IF (Contains(low, Growth) \/ Contains(low, Cagr)) /\ ~Truthy(obj.growth_rate)
       THEN [obj EXCEPT !.growth_rate = value, !.source_url = source]
       ELSE [obj EXCEPT !.other_metrics =
                @ \o <<Dict([metric |-> metric, value |-> value, source_url |-> src])>>]

RECURSIVE MigrateFinancial(_, _)
MigrateFinancial(obj, items) ==
    IF items = <<>> THEN obj
    ELSE MigrateFinancial(MigrateItem(obj, Head(items)), Tail(items))

\* lines 1176-1218
normalize_legacy_intel(data) ==
    IF ~Truthy(data) \/ Truthy(Get(data, "error", Null)) THEN data
    ELSE IF \E k \in MarkerKeys : Has(data, k) THEN data
    ELSE LET obj == MigrateFinancial(LegacyFinancialObj, FinancialList(data))
         IN Dict([financial_data |->
                      Dict([obj EXCEPT !.other_metrics = List(@)]),
                  technologies |->
                      Dict([confirmed |-> Get(data, "technologies", EmptyList),
                            inferred |-> EmptyList]),
                  vendors_partners |->
                      Dict([confirmed |-> Get(data, "key_vendors", EmptyList),
                            inferred |-> EmptyList]),
                  recent_projects |-> EmptyList,
                  announcements |-> Get(data, "recent_announcements", EmptyList),
                  strategic_focus |-> EmptyList,
                  it_infrastructure_summary |-> Null,
                  business_context |-> Null,
                  confidence_score |-> Num(4),
                  _legacy_transformed |-> Bool(TRUE)])

\* a key that the object does not carry
Absent == [t |-> "absent"]
\* the object of the fields that are given
ObjectOf(fields) ==
    Dict([k \in {k \in DOMAIN fields : fields[k] # Absent} |-> fields[k]])

\* a list of n entries
Entries(n) == List([i \in 1..n |-> Num(i)])

\* a completion text of n characters; the cut of line 1301 falls inside it
RawText(n) == [i \in 1..n |-> IF i <= 250 THEN "a" ELSE IF i <= 500 THEN "b" ELSE "c"]
RawLengths == {0, 1, 499, 500, MaxRawLen}
Paddings == {<<>>, <<" ">>}

InvalidReplies ==
    {[kind |-> "reply", valid |-> FALSE, data |-> Null,
      content |-> lead \o RawText(n) \o trail] :
        n \in RawLengths, lead \in Paddings, trail \in Paddings}

ReplyObjects ==
    {ObjectOf([financial_data |-> fin, technologies |-> tech, recent_projects |-> proj,
               leadership_team |-> team, confidence_score |-> conf]) :
        fin \in {Absent, Null, EmptyList,
                 Dict([revenue |-> Str(<<"$", "1">>), confidence |-> Num(7)])},
        tech \in {Absent, Null, Entries(1), Dict([confirmed |-> Entries(1)])},
        proj \in {Absent, Entries(2), Entries(MaxArrayLen)},
        team \in {Absent, Entries(9)},
        conf \in {Absent, Null, Num(9)}}

ValidReplies ==
    {[kind |-> "reply", valid |-> TRUE, data |-> data, content |-> <<"{", "}">>] :
        data \in ReplyObjects \cup {Entries(1)}}

NoReplies ==
    {[kind |-> kind, valid |-> FALSE, data |-> Null, content |-> <<>>] :
        kind \in {"no_data", "raises"}}

Replies == InvalidReplies \cup ValidReplies \cup NoReplies

\* legacy financial_data entries: their metric labels
LegacyMetrics ==
    {Absent,
     Str(<<"R", "e", "v", "e", "n", "u", "e">>),
     Str(<<"M", "a", "r", "k", "e", "t", " ", "C", "a", "p">>),
     Str(<<"C", "A", "G", "R">>),
     Str(<<"S", "t", "a", "f", "f">>)}

Digit(i) == CASE i = 1 -> "1" [] i = 2 -> "2" [] i = 3 -> "3" [] OTHER -> "4"
ValueAt(i) == Str(<<"$", Digit(i)>>)
UrlAt(i) == Str(<<"u", Digit(i)>>)
\* an entry that is a line of text, as openai_benefits_summary also reads it
TextEntry == Str(<<"R", "e", "v", "e", "n", "u", "e", ":", " ", "$", "5">>)

EntryShapes == [metric : LegacyMetrics, value : BOOLEAN, source_url : BOOLEAN] \cup {TextEntry}

EntryAt(shape, i) ==
    IF shape = TextEntry THEN TextEntry
    ELSE ObjectOf([metric |-> shape.metric,
                   value |-> IF shape.value THEN ValueAt(i) ELSE Absent,
                   source_url |-> IF shape.source_url THEN UrlAt(i) ELSE Null])

LegacyFinancialLists ==
    UNION {{List([i \in 1..n |-> EntryAt(shapes[i], i)]) : shapes \in [1..n -> EntryShapes]} :
              n \in 0..MaxFinancialItems}

LegacyBundles ==
    {ObjectOf([financial_data |-> fin, technologies |-> rest[1],
               key_vendors |-> rest[2], recent_announcements |-> rest[3]]) :
        fin \in {Absent, Null} \cup LegacyFinancialLists,
        rest \in {<<Absent, Absent, Absent>>,
                  <<Entries(1), Absent, Absent>>,
                  <<Entries(2), Entries(1), Entries(3)>>}}

GivenBundles == {Null, ErrorBundle("upstream")} \cup LegacyBundles

IntelStart ==
    \/ /\ it_pc = "call"
       /\ it_reply \in Replies
       /\ it_data = Null
       /\ it_out = Null
    \/ /\ it_pc = "extracted"
       /\ it_reply = [kind |-> "given", valid |-> FALSE, data |-> Null, content |-> <<>>]
       /\ it_data \in GivenBundles
       /\ it_out = Null

\* portfolio_summary, line 1799
IntelExtract ==
    /\ it_pc = "call"
    /\ it_pc' = "extracted"
    /\ it_data' = ai_extract_intelligence(it_reply)
    /\ UNCHANGED <<it_reply, it_out>>
    /\ UNCHANGED notIntel

\* portfolio_summary, line 1800
IntelNormalize ==
    /\ it_pc = "extracted"
    /\ it_pc' = "normalized"
    /\ it_out' = normalize_legacy_intel(it_data)
    /\ UNCHANGED <<it_reply, it_data>>
    /\ UNCHANGED notIntel

InitIntel ==
    /\ ConfigFull /\ CascadeInit /\ WebInit /\ StoreInit /\ BatchInit
    /\ ScoreInit /\ SelectInit /\ RetryInit /\ QualityInit
    /\ FormatInit /\ IntelStart /\ EndpointInit

NextIntel ==
    \/ IntelExtract
    \/ IntelNormalize

SpecIntel == InitIntel /\ [][NextIntel]_vars

(***************************************************************************)
(* The endpoints portfolio_summary (ff.py 1786-1812) and                   *)
(* portfolio_summary_selected (ff.py 1814-1841), in what they do with the  *)
(* intelligence bundle of the request.                                     *)
(***************************************************************************)
\* lines 1787 and 1821: the bundle of the request is taken over
Reusable(intelligence_data) ==
    Truthy(intelligence_data) /\ ~Truthy(Get(intelligence_data, "error", Null))

\* a bundle of the current schema, as the extraction returns it
CurrentBundles ==
    {ai_extract_intelligence(reply) : reply \in ValidReplies} \ {ErrorBundle("exception")}

RequestBundles == GivenBundles \cup CurrentBundles

EndpointStart ==
    /\ ep_pc = "call"
    /\ ep_req \in [endpoint : {"portfolio_summary", "portfolio_summary_selected"},
                   intelligence_data : RequestBundles]
    /\ ep_used = Null
    /\ ep_response = Null

\* lines 1786-1812; the completion's reply stands for the fresh search
PortfolioSummary ==
    /\ ep_pc = "call"
    /\ ep_req.endpoint = "portfolio_summary"
    /\ ep_pc' = "returned"
    /\ \E reply \in Replies :
          ep_response' =
              IF Reusable(ep_req.intelligence_data) THEN ep_req.intelligence_data
              ELSE normalize_legacy_intel(ai_extract_intelligence(reply))
    /\ UNCHANGED <<ep_req, ep_used>>
    /\ UNCHANGED notEndpoint

\* lines 1814-1841; ep_used is the bundle handed to openai_benefits_summary
PortfolioSummarySelected ==
    /\ ep_pc = "call"
    /\ ep_req.endpoint = "portfolio_summary_selected"
    /\ ep_pc' = "returned"
    /\ ep_used' = IF Reusable(ep_req.intelligence_data) THEN ep_req.intelligence_data ELSE Null
    /\ ep_response' = ep_used'
    /\ UNCHANGED ep_req
    /\ UNCHANGED notEndpoint

InitEndpoint ==
    /\ ConfigFull /\ CascadeInit /\ WebInit /\ StoreInit /\ BatchInit
    /\ ScoreInit /\ SelectInit /\ RetryInit /\ QualityInit
    /\ FormatInit /\ IntelInit /\ EndpointStart

NextEndpoint ==
    \/ PortfolioSummary
    \/ PortfolioSummarySelected

SpecEndpoint == InitEndpoint /\ [][NextEndpoint]_vars

(***************************************************************************)
(* intelligent_cascade_search (ff.py 626-711) with engines that return at  *)
(* most the number of results they are asked for, on targets large enough  *)
(* for the "+ 2" of search_limit to decide.                                *)
(***************************************************************************)
\* the largest target of these calls
MaxLimitTarget == 6

\* the URL of the i-th result found
UrlNames == <<"u1", "u2", "u3", "u4", "u5", "u6", "u7", "u8", "u9", "u10", "u11", "u12">>

\* a reply of n results: the first known of them are URLs the cascade
\* already holds, the others are new
ReplyWithin(all_results, n, known) ==
    [k \in 1..n |-> IF k <= known THEN all_results[k].url
                    ELSE UrlNames[Len(all_results) + k - known]]

\* a call intelligent_cascade_search(query, target) with a positive target
CascadeCallPositive ==
    /\ \E target \in 1..MaxLimitTarget : CascadeCall(target)
    /\ UNCHANGED notCascade

\* engine["func"](query, search_limit) returns at most search_limit results
CascadeEngineHonoursLimit ==
    \E n \in 0..(MaxLimitTarget + 3) : \E known \in 0..n :
    /\ cs_pc = "loop"
    /\ cs_idx <= 3
    /\ ~TargetAchieved(Len(cs_all_results), cs_target)
    /\ EngineAvailable(search_engines[cs_idx])
    /\ n <= SearchLimit(search_engines[cs_idx], cs_target, Len(cs_all_results))
    /\ known <= Len(cs_all_results)
    /\ LET urls == ReplyWithin(cs_all_results, n, known)
           engine_results == FormatResults(search_engines[cs_idx], urls)
           extended == cs_all_results \o NewResults(cs_all_results, engine_results)
       IN /\ cs_log' = Append(cs_log, LogEntry(search_engines[cs_idx], "ok", urls))
          /\ IF engine_results # <<>>
             THEN /\ cs_all_results' = extended
                  /\ IF SufficientResults(Len(extended), cs_target)
                     THEN cs_pc' = "done" /\ cs_idx' = cs_idx
                     ELSE cs_pc' = "loop" /\ cs_idx' = cs_idx + 1
             ELSE /\ cs_all_results' = cs_all_results
                  /\ cs_pc' = "loop"
                  /\ cs_idx' = cs_idx + 1
    /\ UNCHANGED cs_target
    /\ UNCHANGED notCascade

NextCascadeLimit ==
    \/ CascadeCallPositive
    \/ CascadeSkipUnavailable
    \/ CascadeEngineRaises
    \/ CascadeEngineHonoursLimit
    \/ CascadeLoopExit

SpecCascadeLimit == InitCascade /\ [][NextCascadeLimit]_vars

(***************************************************************************)
(* Properties of intelligent_cascade_search.                               *)
(***************************************************************************)
EngineIndex(name) == CHOOSE k \in 1..3 : search_engines[k] = name

LoggedEngines == {cs_log[i].engine : i \in 1..Len(cs_log)}

\* the number of results in all_results that engines before position k added
CountBefore(k) ==
    Cardinality({i \in 1..Len(cs_all_results) :
                    EngineIndex(cs_all_results[i].source) < k})

\* engine k added nothing: it was unavailable, raised, or returned an empty list
ContributedNothing(k) ==
    \/ ~EngineAvailable(search_engines[k])
    \/ \E i \in 1..Len(cs_log) :
          /\ cs_log[i].engine = search_engines[k]
          /\ (cs_log[i].outcome = "raise" \/ cs_log[i].returned = <<>>)

\* C1: the list intelligent_cascade_search returns contains each URL exactly
\* once, whatever the engines return, URLs repeated inside one engine's own
\* result list included.
C1_ReturnedUrlsUnique ==
    cs_pc = "done" => EachUrlOnce(cs_all_results)

\* C2: the engines are invoked only in the order DuckDuckGo, free Google,
\* SerpAPI; an engine is invoked only while the results accumulated before it
\* are below the target and below 70% of the target; the cascade ends once
\* that threshold is reached or after the third engine.
C2_FixedOrderBelowThreshold ==
    /\ \A i \in 1..Len(cs_log) :
          /\ cs_log[i].before < cs_target
          /\ 10 * cs_log[i].before < 7 * cs_target
    /\ \A i, j \in 1..Len(cs_log) :
          i < j => EngineIndex(cs_log[i].engine) < EngineIndex(cs_log[j].engine)
    /\ cs_pc = "done" =>
          \/ Len(cs_all_results) >= cs_target
          \/ 10 * Len(cs_all_results) >= 7 * cs_target
          \/ cs_idx = 4

\* C2 witness: with target 4 the second engine was invoked at 2 results and the
\* cascade ended at 3 results (70% of 4 reached) before the third engine.
C2_Witness ==
    /\ cs_pc = "done"
    /\ cs_target = 4
    /\ Len(cs_log) = 2
    /\ cs_log[2].before = 2
    /\ Len(cs_all_results) = 3
    /\ cs_idx = 2

\* C3: an engine that raises, returns an empty list or is unavailable adds no
\* result and never keeps a later engine from being tried; every engine is
\* invoked at most once per call; when the first two engines add nothing, the
\* result is exactly the list the third engine returned.
C3_FailingEngineSkipped ==
    /\ \A i, j \in 1..Len(cs_log) :
          cs_log[i].engine = cs_log[j].engine => i = j
    /\ \A k \in 1..3 :
          ContributedNothing(k) =>
             \A i \in 1..Len(cs_all_results) :
                 cs_all_results[i].source # search_engines[k]
    /\ cs_pc = "done" =>
          \A k \in 1..3 :
             (EngineAvailable(search_engines[k]) /\ search_engines[k] \notin LoggedEngines)
                => 10 * CountBefore(k) >= 7 * cs_target
    /\ (cs_pc = "done" /\ ContributedNothing(1) /\ ContributedNothing(2)) =>
          \A i \in 1..Len(cs_log) :
             cs_log[i].engine = "serpapi" /\ cs_log[i].outcome = "ok" =>
                cs_all_results = FormatResults("serpapi", cs_log[i].returned)

\* C3 witness: DuckDuckGo raised, free Google returned an empty list, SerpAPI
\* returned two different URLs, and the result is those two.
C3_Witness ==
    /\ cs_pc = "done"
    /\ Len(cs_log) = 3
    /\ cs_log[1].outcome = "raise"
    /\ cs_log[2].outcome = "ok" /\ cs_log[2].returned = <<>>
    /\ cs_log[3].returned = <<"u1", "u2">>
    /\ cs_all_results = FormatResults("serpapi", <<"u1", "u2">>)

\* the stepwise call and CascadeRun return the same list for the same replies
LoggedReplies ==
    [k \in 1..3 |->
        IF \E i \in 1..Len(cs_log) : cs_log[i].engine = search_engines[k]
        THEN LET e == CHOOSE e \in {cs_log[i] : i \in 1..Len(cs_log)} :
                          e.engine = search_engines[k]
             IN [raises |-> e.outcome = "raise", urls |-> e.returned]
        ELSE [raises |-> TRUE, urls |-> <<>>]]

CascadeRunAgrees ==
    cs_pc = "done" => cs_all_results = CascadeRun(cs_target, LoggedReplies)

(***************************************************************************)
(* Properties of comprehensive_web_search.                                 *)
(***************************************************************************)
\* C4: in the collection comprehensive_web_search aggregates for one request
\* every URL occurs at most once, also when two queries return the same URL.
C4_AggregatedUrlsUnique ==
    ws_pc \in {"format", "done"} => EachUrlOnce(ws_all_results)

\* the targeted stage alone keeps URLs unique: it never adds a URL already held
TargetedStageAddsNoKnownUrl ==
    [][(ws_pc = "targeted" /\ ws_pc' = "targeted") =>
          \A i \in (Len(ws_all_results) + 1)..Len(ws_all_results') :
             ws_all_results'[i].url \notin UrlsOf(ws_all_results)]_vars

(***************************************************************************)
(* Properties of load_portfolio_df.                                        *)
(***************************************************************************)
\* thread t is returning from load_portfolio_df
LoadReturning(t) == th[t].pc = "lp_returned"

\* C5: when a load_portfolio_df call took the same modification time as the
\* call that returned before it, it returns a table equal to that call's and
\* has not read the file; and a call reads the file only while the cache holds
\* no table or a modification time other than the one the call took.
C5_UnchangedFileIsNotReread ==
    /\ \A t \in Threads :
          (LoadReturning(t) /\ th[t].prev.valid /\ th[t].prev.mtime = th[t].mtime)
              => (th[t].df = th[t].prev.df /\ th[t].reads = 0)
    /\ \A t \in Threads :
          th[t].pc \in {"lp_read0", "lp_read1"}
              => ~(portfolio_cache.df_set /\ portfolio_cache.mtime = th[t].mtime)

\* a second call on the unchanged file returns the cached, non-empty table
C5_Witness ==
    \E t \in Threads :
        /\ LoadReturning(t)
        /\ th[t].prev.valid
        /\ th[t].prev.mtime = th[t].mtime
        /\ th[t].lvia = "cache"
        /\ th[t].df # <<>>

\* C6: whenever a call returns the cached table because the cached
\* modification time equals the one it took from the file, and that is still
\* the file's modification time, the table is the one loaded from the file
\* version with that modification time.
C6_CachedTableMatchesMtime ==
    \A t \in Threads :
        (LoadReturning(t) /\ th[t].lvia = "cache" /\ th[t].mtime = Mtime)
            => th[t].df = TableOf(Mtime)

\* the call of thread t read the file and the file is as it was when the
\* call took its modification time
LoadedFromUnchangedFile(t) ==
    LoadReturning(t) /\ th[t].lvia = "file" /\ th[t].mtime = Mtime

\* the rows of a sheet of n rows, tagged with the sheet's status
IsSheetOf(df, status, n) ==
    /\ Len(df) = n
    /\ \A i \in 1..Len(df) : df[i] = [ver |-> Mtime, status |-> status, i |-> i]

\* C28: when one of the two sheets cannot be read, load_portfolio_df returns
\* the rows of the other sheet, each tagged with that sheet's status; a file
\* with one active row and no second sheet gives one record, status "active".
C28_ReadableSheetReturned ==
    \A t \in Threads :
        LoadedFromUnchangedFile(t) =>
            /\ (xlsx_hist[Mtime].closed < 0 /\ xlsx_hist[Mtime].active >= 0)
                  => IsSheetOf(th[t].df, "active", xlsx_hist[Mtime].active)
            /\ (xlsx_hist[Mtime].active < 0 /\ xlsx_hist[Mtime].closed >= 0)
                  => IsSheetOf(th[t].df, "closed", xlsx_hist[Mtime].closed)

C28_Witness ==
    \E t \in Threads :
        /\ LoadedFromUnchangedFile(t)
        /\ xlsx_hist[Mtime] = [active |-> 1, closed |-> -1]
        /\ th[t].reads = 2
        /\ th[t].df = <<[ver |-> Mtime, status |-> "active", i |-> 1]>>

(***************************************************************************)
(* Properties of load_or_create_embeddings.                                *)
(***************************************************************************)
\* thread t is returning from load_or_create_embeddings
EmbedReturning(t) == th[t].pc = "em_returned"

\* C7: every return of load_or_create_embeddings gives as many vectors as
\* records.
C7_OneVectorPerRecord ==
    \A t \in Threads :
        EmbedReturning(t) => Len(th[t].all_embeddings) = Len(th[t].df)

\* the document f is complete and carries the tags of the call l
SameTags(f, l) ==
    /\ f.exists /\ f.head.set /\ f.body.set
    /\ f.head.xlsx_mtime = l.xlsx_mtime
    /\ f.head.row_count = Len(l.df)

\* the call l requested vectors for all its rows and wrote one document with
\* its tags and all its vectors
RegeneratedInFull(t, l) ==
    /\ l.via = "fresh"
    /\ l.requests = Cardinality(BatchStarts(Len(l.df)))
    /\ Len(l.all_embeddings) = Len(l.df)
    /\ l.written =
          <<[set |-> TRUE, xlsx_mtime |-> l.xlsx_mtime, row_count |-> Len(l.df), writer |-> t],
            [set |-> TRUE, embeddings |-> l.all_embeddings, writer |-> t]>>

\* the call l returned the vectors of the document it read, without a request
\* and without writing
ReturnedPersisted(l) ==
    /\ l.via = "cache"
    /\ l.all_embeddings = l.saw.body.embeddings
    /\ l.requests = 0
    /\ l.written = <<>>

\* C8 as stated: a call that finds a persisted document with both its tags
\* returns the persisted vectors without a request and without writing; a call
\* that finds a persisted document of which a tag differs from its own
\* regenerates all vectors and rewrites the file in full.
C8_MismatchAlwaysRewrites ==
    \A t \in Threads :
        EmbedReturning(t) =>
            /\ SameTags(th[t].found, th[t])
                  => /\ th[t].all_embeddings = th[t].found.body.embeddings
                     /\ th[t].requests = 0
                     /\ th[t].written = <<>>
            /\ (Parses(th[t].found) /\ ~SameTags(th[t].found, th[t]))
                  => RegeneratedInFull(t, th[t])

\* C8, amended: a call with a non-empty table that reads a document with both
\* its tags returns the vectors of that document, without a request and
\* without writing; a call with a non-empty table that reads no document or
\* one with another tag requests vectors for all rows and writes one document
\* with its tags and all vectors; a call with an empty table returns no
\* vectors, makes no request and neither reads nor writes the cache file.
C8_RewriteUnlessEmptyTable ==
    \A t \in Threads :
        EmbedReturning(t) =>
            IF th[t].df = <<>>
            THEN /\ th[t].via = "empty"
                 /\ th[t].all_embeddings = <<>>
                 /\ th[t].requests = 0
                 /\ th[t].saw = NoFile
                 /\ th[t].written = <<>>
            ELSE IF SameTags(th[t].saw, th[t])
            THEN ReturnedPersisted(th[t])
            ELSE RegeneratedInFull(t, th[t])

\* a call returns the vectors another call persisted
C8_Witness ==
    \E t \in Threads :
        /\ EmbedReturning(t)
        /\ th[t].via = "cache"
        /\ th[t].df # <<>>
        /\ SameTags(th[t].saw, th[t])
        /\ th[t].all_embeddings = th[t].saw.body.embeddings

\* the cache file is absent or holds one document written by one writer
Intact(f) ==
    \/ ~f.exists
    \/ f.head.set /\ f.body.set /\ f.head.writer = f.body.writer

\* C10: whenever a call is about to read the cache file, the file is absent
\* or holds one complete document written by a single writer.
C10_ReaderFindsWholeDocument ==
    (\E t \in Threads : th[t].pc = "em_check") => Intact(EMBEDDINGS_CACHE_FILE)

(***************************************************************************)
(* Properties of the batch loop.                                           *)
(***************************************************************************)
\* the first index of the batch record k is in
BatchStartOf(k) == ((k - 1) \div BATCH_SIZE) * BATCH_SIZE

\* C9: after the loop every record has a vector, in record order: the zero
\* vector when the request of its batch failed, else the vector the
\* capability returned for its text.
C9_FailedBatchGetsZeroVectors ==
    bt_pc = "done" =>
        /\ Len(bt_embeddings) = bt_rows
        /\ \A k \in 1..bt_rows :
              bt_embeddings[k] =
                  IF BatchStartOf(k) \in bt_fails
                  THEN [zero |-> TRUE, text |-> <<0, "", 0>>]
                  ELSE [zero |-> FALSE, text |-> <<1, "active", k>>]

\* of three batches the second, a full one, has failed
C9_Witness ==
    /\ bt_pc = "done"
    /\ bt_rows = 2 * BATCH_SIZE + 1
    /\ bt_fails = {BATCH_SIZE}
    /\ bt_embeddings[BATCH_SIZE + 1].zero
    /\ ~bt_embeddings[BATCH_SIZE].zero
    /\ ~bt_embeddings[2 * BATCH_SIZE + 1].zero

(***************************************************************************)
(* Properties of score_row_with_reasoning.                                 *)
(***************************************************************************)
\* the cosine of the angle between two embeddings as num / den, 0 when one
\* of them has no length
CosineOf(q, r) ==
    IF Dot(q, q) = 0 \/ Dot(r, r) = 0 THEN [num |-> 0, den |-> 1]
    ELSE [num |-> Dot(q, r), den |-> Norm(q) * Norm(r)]

\* the points the table of signals gives a record for a request, without the
\* similarity
TablePoints(row, industry, technology, focus) ==
    LET SubstringMatch(q, text) == q # <<>> /\ Contains(Lower(Strip(q)), Lower(text))
        TokenOverlap(q, text) ==
            q # <<>> /\ Split(Lower(q)) \cap Split(Lower(text)) # {}
        Graded(q, text) == IF SubstringMatch(q, text) THEN 20
                           ELSE IF TokenOverlap(q, text) THEN 10 ELSE 0
        FocusWord(w) == Len(w) > 3 /\ (\/ Contains(w, Lower(row.business_case))
                                       \/ Contains(w, Lower(row.problem_or_opportunity_statement)))
    IN Graded(industry, row.industry)
       + Graded(technology, row.technologies)
       + (IF row.value_add > 100 THEN 5 ELSE 0)
       + (IF row.key_deliverables > 50 THEN 5 ELSE 0)
       + (IF row.status = "active" THEN 5 ELSE 0)
       + (IF \E w \in Split(Lower(focus)) : FocusWord(w) THEN 5 ELSE 0)

HasBullet(result, line) ==
    \E i \in 1..Len(result.reasoning_bullets) : result.reasoning_bullets[i].line = line

\* C11: for every record and every pair of embeddings, negative similarity
\* included, the match_score returned lies in [0, 100].
C11_MatchScoreInRange ==
    sc_pc = "returned" => sc_result.match_score \in 0..1000

\* C13: the raw score returned is the sum of the six signals of the table
\* (40 x similarity plus the points of the industry, technology, value,
\* status and focus rules), to the one decimal the function reports; and an
\* industry filter equal to the record's industry scores 20 for the industry
\* and puts an industry-match line into the reasoning.
C13_RawScoreIsSumOfSignals ==
    sc_pc = "returned" =>
        LET a == sc_args
            sim == CosineOf(a.query_embedding, a.row_embedding)
            points == TablePoints(a.row, a.industry, a.technology, a.focus)
        IN /\ sc_result.raw_score = RoundTenths(40 * sim.num + points * sim.den, sim.den)
           /\ (a.industry # <<>> /\ a.industry = a.row.industry) =>
                  /\ IndustryAlignment(a.row, a.industry).score = 20
                  /\ HasBullet(sc_result, "Industry Match")
                  /\ ~HasBullet(sc_result, "Industry Relevance")

\* a record scored with its own industry as the filter, a technology that
\* shares one keyword only, both value texts long enough, an active status,
\* a focus word found and a similarity of 63/65: 38.8 + 20 + 10 + 10 + 5 + 5
C13_Witness ==
    /\ sc_pc = "returned"
    /\ sc_args.industry = AB /\ sc_args.row.industry = AB
    /\ sc_args.technology = <<"b", " ", "a">> /\ sc_args.row.technologies = A_B
    /\ sc_args.row.value_add = 101 /\ sc_args.row.key_deliverables = 51
    /\ sc_args.row.status = "active"
    /\ sc_args.focus = AiData /\ sc_args.row.problem_or_opportunity_statement = BigData
    /\ sc_args.query_embedding = <<3, 4>> /\ sc_args.row_embedding = <<5, 12>>
    /\ sc_result.raw_score = 888
    /\ sc_result.match_score = 888

\* C14: when the query embedding or the record embedding is all-zero, the
\* similarity used for the score is exactly 0 (the semantic sub-score adds
\* nothing and the reported similarity is 0.0) and nothing is divided by zero.
C14_ZeroVectorGivesZeroSimilarity ==
    (/\ sc_pc = "returned"
     /\ (sc_args.query_embedding = <<0, 0>> \/ sc_args.row_embedding = <<0, 0>>)) =>
        /\ ~sc_result.division_by_zero
        /\ sc_result.semantic_similarity = 0
        /\ sc_result.reasoning_bullets[1] = [line |-> "Semantic Match", n |-> 0]
        /\ sc_result.raw_score =
               10 * TablePoints(sc_args.row, sc_args.industry,
                                sc_args.technology, sc_args.focus)

\* a record with an all-zero embedding scored against a query that has one
C14_Witness ==
    /\ sc_pc = "returned"
    /\ sc_args.query_embedding = <<3, 4>>
    /\ sc_args.row_embedding = <<0, 0>>
    /\ sc_result.semantic_similarity = 0
    /\ sc_result.raw_score > 0

\* the signals of the table that apply to the record of the call
NoSignalApplies ==
    /\ TablePoints(sc_args.row, sc_args.industry, sc_args.technology, sc_args.focus) = 0
    /\ CosineOf(sc_args.query_embedding, sc_args.row_embedding).num = 0

\* C17: every signal that applies appends one reasoning line, and when no
\* signal applies (no industry, technology, focus, value or status signal
\* and zero similarity) the reasoning is the generic fallback line.
C17_FallbackWhenNoSignal ==
    sc_pc = "returned" =>
        /\ (IndustryAlignment(sc_args.row, sc_args.industry).score > 0) =
               (HasBullet(sc_result, "Industry Match")
                \/ HasBullet(sc_result, "Industry Relevance"))
        /\ (TechnologyMatch(sc_args.row, sc_args.technology).score > 0) =
               (HasBullet(sc_result, "Technology Match")
                \/ HasBullet(sc_result, "Technology Relevance"))
        /\ (sc_args.row.value_add > 100) = HasBullet(sc_result, "Strong Value Proposition")
        /\ (sc_args.row.key_deliverables > 50) = HasBullet(sc_result, "Proven Results")
        /\ (sc_args.row.status = "active") = HasBullet(sc_result, "Active Project")
        /\ (FocusAlignment(sc_args.row, sc_args.focus).score > 0) =
               HasBullet(sc_result, "Focus Area Alignment")
        /\ NoSignalApplies =>
               sc_result.detailed_reasoning = <<Bullet("General portfolio relevance", 0)>>

(***************************************************************************)
(* Properties of select_rows_for_summary.                                  *)
(***************************************************************************)
Without(s, j) == [i \in 1..(Len(s) - 1) |-> IF i < j THEN s[i] ELSE s[i + 1]]

\* the scoring of the record at position i of the table, if it was scored
ScoringsOf(out, i) ==
    {out.scored_rows[k].scoring : k \in {n \in 1..Len(out.scored_rows) :
                                            out.scored_rows[n].idx = i}}

\* C12: what is computed for a candidate (score, semantic similarity,
\* reasoning) depends on the query and on that record and its embedding
\* only: with any other record and its embedding taken out of the table, a
\* record that is scored in both runs gets the same scoring.
C12_ScoringIndependentOfOtherRecords ==
    (sel_pc = "returned" /\ sel_out.scored) =>
        \A j \in 1..Len(sel_args.df) :
            LET less == select_rows_for_summary(Without(sel_args.df, j),
                                                Without(sel_args.embeddings, j),
                                                sel_args.request)
            IN \A i \in 1..Len(sel_args.df) \ {j} :
                   LET moved == IF i < j THEN i ELSE i - 1
                   IN \/ ScoringsOf(sel_out, i) = {}
                      \/ ScoringsOf(less, moved) = {}
                      \/ ScoringsOf(sel_out, i) = ScoringsOf(less, moved)

\* a table whose second record has an all-zero embedding, and a first record
\* scored with a similarity that is not zero
C12_Witness ==
    /\ sel_pc = "returned" /\ sel_out.scored
    /\ Len(sel_args.df) = 3
    /\ sel_args.embeddings[2] = <<0, 0>>
    /\ Len(sel_out.scored_rows) = 3
    /\ sel_out.scored_rows[1].scoring.semantic_similarity = 960
    /\ sel_out.scored_rows[2].scoring.semantic_similarity = 0

\* C15: the list returned is in descending match_score order, and entries
\* of equal match_score are in the order of their records in the table.
C15_DescendingAndStable ==
    sel_pc = "returned" =>
        \A k, l \in 1..Len(sel_out.top_matches) :
            k < l =>
                LET first == sel_out.top_matches[k]
                    second == sel_out.top_matches[l]
                IN /\ first.scoring.match_score >= second.scoring.match_score
                   /\ first.scoring.match_score = second.scoring.match_score
                          => first.idx < second.idx

\* three records returned: the second of the table first, then the first
\* and the third with equal scores
C15_Witness ==
    /\ sel_pc = "returned"
    /\ Len(sel_out.top_matches) = 3
    /\ sel_out.top_matches[1].idx = 2
    /\ sel_out.top_matches[2].idx = 1
    /\ sel_out.top_matches[3].idx = 3
    /\ sel_out.top_matches[2].scoring.match_score
           = sel_out.top_matches[3].scoring.match_score
    /\ sel_out.top_matches[1].scoring.match_score
           > sel_out.top_matches[2].scoring.match_score

\* the records whose industry field contains the industry given, whatever
\* the case of the letters
IndustryMatches(df, industry) ==
    {i \in 1..Len(df) : Contains(Lower(industry), Lower(df[i].industry))}

\* C16: once the query embedding is there, the records scored are exactly
\* those whose industry contains the industry given (case-insensitively);
\* when none does, or no industry is given, every record is scored; so the
\* candidates of a table that is not empty are never empty.
C16_CandidatesAreThePreFilter ==
    (sel_pc = "returned" /\ sel_out.scored) =>
        LET scored == {sel_out.scored_rows[k].idx : k \in 1..Len(sel_out.scored_rows)}
            matches == IndustryMatches(sel_args.df, sel_args.request.industry)
        IN /\ Len(sel_out.scored_rows) = Cardinality(scored)
           /\ scored = IF sel_args.request.industry # <<>> /\ matches # {}
                       THEN matches ELSE 1..Len(sel_args.df)
           /\ scored # {}

\* an industry that no record of a three-record table contains: all scored
C16_Witness ==
    /\ sel_pc = "returned" /\ sel_out.scored
    /\ sel_args.request.industry = <<"a", " ", "c">>
    /\ Len(sel_args.df) = 3
    /\ Len(sel_out.scored_rows) = 3

(***************************************************************************)
(* Properties of duckduckgo_search.                                        *)
(***************************************************************************)
AttemptsMade == {p \in 1..Len(rt_log) : rt_log[p].ev = "attempt"}

\* the shape of the history of a call: what was tried, what was waited for
RetryHistoryShape ==
    /\ Cardinality(AttemptsMade) <= rt_retries
    \* the attempts are numbered 0, 1, 2, ... and only the last may succeed
    /\ \A p \in AttemptsMade :
          /\ rt_log[p].n = Cardinality({q \in AttemptsMade : q < p})
          /\ rt_log[p].outcome = "ok" => p = Len(rt_log) /\ rt_pc = "returned"
    \* a wait stands between a failed attempt and the next attempt, and lasts
    \* 5 + 2^attempt seconds after a rate-limit error and 2^attempt otherwise
    /\ \A p \in 1..Len(rt_log) :
          rt_log[p].ev = "sleep" =>
              /\ p > 1 /\ rt_log[p - 1].ev = "attempt"
              /\ rt_log[p - 1].outcome \in {"rate", "other"}
              /\ rt_log[p].secs = IF rt_log[p - 1].outcome = "rate"
                                  THEN 5 + 2 ^ rt_log[p - 1].n
                                  ELSE 2 ^ rt_log[p - 1].n
              /\ rt_log[p - 1].n < rt_retries - 1
              /\ rt_pc = "returned" => p < Len(rt_log) /\ rt_log[p + 1].ev = "attempt"
    \* a failed attempt that is not the last allowed one is followed by a wait
    /\ \A p \in AttemptsMade :
          (rt_log[p].outcome # "ok" /\ rt_log[p].n < rt_retries - 1) =>
              p < Len(rt_log) /\ rt_log[p + 1].ev = "sleep"
    \* without a successful attempt the call returns the empty list, after
    \* all retries attempts when the library is there
    /\ (rt_pc = "returned" /\ \A p \in AttemptsMade : rt_log[p].outcome # "ok") =>
          /\ rt_result = <<>>
          /\ Cardinality(AttemptsMade) = IF DDGS_AVAILABLE THEN rt_retries ELSE 0
    /\ rt_pc = "attempt" => rt_attempt < rt_retries

\* C18: a call makes at most retries attempts and then returns: the first
\* attempt that does not fail ends the call with its results, waits occur
\* only between attempts (5 + 2^attempt seconds after a rate-limit error,
\* 2^attempt otherwise, none after the last attempt), the empty list is
\* returned when every attempt fails, and every call under way returns.
C18_RetriesBoundedAndTerminates ==
    /\ []RetryHistoryShape
    /\ (rt_pc = "attempt") ~> (rt_pc = "returned")

\* the default retries = 3 with a rate-limit error, another error and a
\* rate-limit error: waits of 6 and 2 seconds, none after the third attempt
C18_Witness ==
    /\ rt_pc = "returned"
    /\ rt_retries = 3
    /\ rt_result = <<>>
    /\ rt_log = <<Attempt(0, "rate"), Sleep(0, 6), Attempt(1, "other"), Sleep(1, 2),
                  Attempt(2, "rate")>>

(***************************************************************************)
(* Properties of validate_search_quality.                                  *)
(***************************************************************************)
\* the three parts of the score over the denominator of quality_den, the
\* first with its ratio capped at 1 or not
UrlPart(u, n, capped) ==
    20 * (IF capped THEN Min(u, 20) ELSE u) * target_categories * n
CategoryPart(c, n) == 300 * c * n
SnippetPart(total, n) == Min(total, 300 * n) * target_categories

\* C19 as stated: for a non-empty collection the score is
\* 0.4 x min(1, unique_urls/20) + 0.3 x categories/target
\* + 0.3 x min(1, avg_snippet_length/300), and lies in [0, 1].
C19_ScoreIsSumOfCappedParts ==
    (ql_pc = "returned" /\ ql_all_results # <<>>) =>
        LET r == ql_metrics
        IN /\ r.quality_num = UrlPart(r.unique_urls, r.total_results, TRUE)
                              + CategoryPart(r.categories_covered, r.total_results)
                              + SnippetPart(r.snippet_total, r.total_results)
           /\ 0 <= r.quality_num /\ r.quality_num <= r.quality_den

\* C19, amended: for a non-empty collection the score is
\* min(1, 0.4 x unique_urls/20 + 0.3 x categories/target
\* + 0.3 x min(1, avg_snippet_length/300)); it lies in [0, 1] and is the sum
\* of C19 as stated whenever there are at most 20 unique URLs.
C19_ScoreIsCappedSum ==
    (ql_pc = "returned" /\ ql_all_results # <<>>) =>
        LET r == ql_metrics
            rest == CategoryPart(r.categories_covered, r.total_results)
                    + SnippetPart(r.snippet_total, r.total_results)
        IN /\ r.total_results = Len(ql_all_results)
           /\ r.quality_den = 1000 * target_categories * r.total_results
           /\ r.quality_num =
                  Min(r.quality_den, UrlPart(r.unique_urls, r.total_results, FALSE) + rest)
           /\ 0 <= r.quality_num /\ r.quality_num <= r.quality_den
           /\ r.unique_urls <= 20 =>
                  r.quality_num = UrlPart(r.unique_urls, r.total_results, TRUE) + rest

\* 22 results with 22 URLs, one category and empty snippets: 0.44 + 0.06
C19_Witness ==
    /\ ql_pc = "returned"
    /\ ql_metrics.unique_urls = 22
    /\ ql_metrics.categories_covered = 1
    /\ ql_metrics.snippet_total = 0
    /\ 2 * ql_metrics.quality_num = ql_metrics.quality_den

\* the collection with its URLs folded onto the first u of them: the same
\* length, categories and snippets
WithUrls(all_results, u) ==
    [i \in 1..Len(all_results) |->
        [all_results[i] EXCEPT !.url = ((all_results[i].url - 1) % u) + 1]]

\* C20: with the number of categories and the average snippet length
\* fixed, a collection with fewer unique URLs never scores higher.
C20_MonotoneInUniqueUrls ==
    (ql_pc = "returned" /\ ql_all_results # <<>>) =>
        \A u \in 1..ql_metrics.unique_urls :
            LET fewer == validate_search_quality(WithUrls(ql_all_results, u),
                                                 target_categories)
            IN /\ fewer.unique_urls = u
               /\ fewer.categories_covered = ql_metrics.categories_covered
               /\ fewer.snippet_total = ql_metrics.snippet_total
               /\ fewer.quality_den = ql_metrics.quality_den
               /\ fewer.quality_num <= ql_metrics.quality_num

\* a collection of 12 URLs that scores strictly more than the same
\* collection folded onto 3 URLs
C20_Witness ==
    /\ ql_pc = "returned"
    /\ ql_metrics.unique_urls = 12
    /\ ql_metrics.total_results = 15
    /\ validate_search_quality(WithUrls(ql_all_results, 3), target_categories).quality_num
           < ql_metrics.quality_num

(***************************************************************************)
(* Properties of the last stages of comprehensive_web_search.              *)
(***************************************************************************)
\* the stages of a call in the order of the code
StageRank(pc) ==
    CASE pc = "idle" -> 0 [] pc = "main" -> 1 [] pc = "yahoo" -> 2
      [] pc = "ticker" -> 3 [] pc = "website" -> 4 [] pc = "alt" -> 5
      [] pc = "industry" -> 6 [] pc = "quality" -> 7 [] pc = "targeted" -> 8
      [] pc = "format" -> 9 [] pc = "done" -> 10

\* the quality score of the collection is below 0.5
ScoreBelowHalf(results) ==
    results = <<>> \/ 2 * QualityNum(results) < QualityDen(results)

\* C21: the five targeted queries are issued exactly when the quality score
\* computed after the earlier stages is below 0.5 and fewer than 15 results
\* are collected: the targeted stage is entered from the quality check only,
\* on that condition and always on it, it comes after every earlier stage,
\* and it makes five queries before the rendering.
C21_TargetedBatchExactlyOnLowQuality ==
    [][/\ StageRank(ws_pc') >= StageRank(ws_pc)
       /\ (ws_pc # "targeted" /\ ws_pc' = "targeted") => ws_pc = "quality"
       /\ ws_pc = "quality" =>
              /\ ws_all_results' = ws_all_results
              /\ (ws_pc' = "targeted") =
                     (ScoreBelowHalf(ws_all_results) /\ Len(ws_all_results) < 15)
              /\ ws_pc' \in {"targeted", "format"}
       /\ (ws_pc = "targeted" /\ ws_pc' = "targeted") => ws_i < 5 /\ ws_i' = ws_i + 1
       /\ (ws_pc = "targeted" /\ ws_pc' # "targeted") => ws_i = 5 /\ ws_pc' = "format"
       /\ (ws_pc \in {"format", "done"}) => ws_all_results' = ws_all_results
      ]_vars

\* the fifth targeted query of a call has been made
C21_Witness ==
    /\ ws_pc = "targeted"
    /\ ws_i = 5
    /\ Len(ws_all_results) > 0

(***************************************************************************)
(* Properties of the rendering of comprehensive_web_search.                *)
(***************************************************************************)
\* the blocks in which the result r is rendered, once per occurrence
PlacesOf(r) ==
    {<<k, j>> \in (1..Len(fm_sections)) \X (1..MaxFormatResults + 1) :
        j <= Len(fm_sections[k].content) /\ fm_sections[k].content[j] = r}

\* the number of results of r's category up to and including r
RankInCategory(i) ==
    Cardinality({j \in 1..i : fm_all_results[j].category = fm_all_results[i].category})

\* C22 as stated: every result collected is rendered, in the labeled block
\* of its own category.
C22_EveryResultRendered ==
    fm_pc = "returned" =>
        \A i \in 1..Len(fm_all_results) :
            \E p \in PlacesOf(fm_all_results[i]) :
                fm_sections[p[1]].category = fm_all_results[i].category

\* C22, amended: a collected result is rendered exactly when it is among
\* the first ten results of its category, then once, in the labeled block
\* of its category and in collection order; the eleventh and later results
\* of a category are left out.
C22_FirstTenPerCategoryRendered ==
    fm_pc = "returned" =>
        /\ \A i \in 1..Len(fm_all_results) :
              LET r == fm_all_results[i]
              IN IF RankInCategory(i) <= 10
                 THEN /\ Cardinality(PlacesOf(r)) = 1
                      /\ \A p \in PlacesOf(r) :
                            /\ fm_sections[p[1]].category = r.category
                            /\ fm_sections[p[1]].label = SectionLabel(r.category)
                            /\ p[2] = RankInCategory(i)
                 ELSE PlacesOf(r) = {}
        /\ \A k, l \in 1..Len(fm_sections) :
              k # l => fm_sections[k].category # fm_sections[l].category
        /\ \A k \in 1..Len(fm_sections) : fm_sections[k].content # <<>>

\* twelve results, eleven of them web-search results: ten are rendered
C22_Witness ==
    /\ fm_pc = "returned"
    /\ Len(fm_all_results) = 12
    /\ Len(CategoryGroup(fm_all_results, "web_search")) = 11
    /\ Len(fm_sections) = 2
    /\ \E k \in 1..2 : /\ fm_sections[k].category = "web_search"
                       /\ Len(fm_sections[k].content) = 10

(***************************************************************************)
(* Properties of ai_extract_intelligence and _normalize_legacy_intel.      *)
(***************************************************************************)
\* the completion returned text that json.loads rejects
ReplyIsInvalidJson == it_reply.kind = "reply" /\ ~it_reply.valid

\* C23: on a completion text that is not valid JSON the extraction returns
\* the bundle of error = "parse_error" and the first 500 characters of the
\* stripped text and of nothing else, and the normalization returns that
\* bundle as it is.
C23_ParseErrorBundle ==
    ReplyIsInvalidJson =>
        /\ it_pc \in {"extracted", "normalized"} =>
              /\ DOMAIN it_data.v = {"error", "raw"}
              /\ it_data.v["error"] = Str(Word("parse_error"))
              /\ it_data.v["raw"].t = "str"
              /\ LET raw == Strip(it_reply.content)
                     kept == it_data.v["raw"].v
                 IN /\ Len(kept) = Min(500, Len(raw))
                    /\ \A i \in 1..Len(kept) : kept[i] = raw[i]
        /\ it_pc = "normalized" => it_out = it_data

C23_Witness ==
    /\ ReplyIsInvalidJson
    /\ it_pc = "normalized"
    /\ Len(Strip(it_reply.content)) > 500
    /\ Len(it_reply.content) > Len(Strip(it_reply.content))
    /\ Len(it_out.v["raw"].v) = 500

\* the top-level keys of the current schema
SchemaKeys ==
    {"financial_data", "technologies", "vendors_partners", "recent_projects",
     "announcements", "strategic_focus", "competitive_landscape", "tech_roadmap",
     "leadership_team", "it_infrastructure_summary", "business_context",
     "market_position", "confidence_score"}

IsErrorBundle(data) == ~Truthy(data) \/ Truthy(Get(data, "error", Null))

\* the bundle was in the older schema and has been migrated
Migrated == it_pc = "normalized" /\ ~IsErrorBundle(it_data) /\ it_out # it_data

\* C24: a non-error bundle that leaves the normalization, extracted from a
\* completion or migrated from a legacy bundle, carries every top-level key
\* of the current schema.
C24_EverySchemaKeyPresent ==
    (it_pc = "normalized" /\ ~IsErrorBundle(it_out)) =>
        SchemaKeys \subseteq DOMAIN it_out.v

C24_ExtractedCarryEveryKey ==
    (it_pc = "normalized" /\ it_reply.kind = "reply" /\ ~IsErrorBundle(it_out)) =>
        SchemaKeys \subseteq DOMAIN it_out.v

\* C25: the normalization returns a bundle of the current schema as it is,
\* and normalizing a normalized bundle again changes nothing.
C25_NormalizeIdempotent ==
    it_pc = "normalized" =>
        /\ normalize_legacy_intel(it_out) = it_out
        /\ (it_reply.kind = "reply" /\ ~IsErrorBundle(it_data)) => it_out = it_data
        /\ (Migrated /\ Has(it_data, "technologies")) =>
              it_out.v["technologies"].v["confirmed"] = it_data.v["technologies"]

C25_Witness ==
    /\ Migrated
    /\ Has(it_data, "technologies")
    /\ Truthy(it_out.v["financial_data"].v["revenue"])
    /\ normalize_legacy_intel(it_out) = it_out

\* the legacy financial_data list of the bundle given
LegacyEntries == IF Has(it_data, "financial_data") /\ it_data.v["financial_data"].t = "list" THEN it_data.v["financial_data"].v ELSE <<>>

\* the places of the migrated financial_data that hold the i-th legacy entry
PlacesOfEntry(i) ==
    LET entry == LegacyEntries[i]
        fin == it_out.v["financial_data"].v
        value == IF IsDict(entry) THEN Get(entry, "value", Null) ELSE entry
    IN {slot \in {"revenue", "market_cap", "growth_rate"} : Truthy(value) /\ fin[slot] = value}
       \cup {j \in 1..Len(fin["other_metrics"].v) : fin["other_metrics"].v[j] = entry}

\* the source of the i-th legacy entry is kept where the entry was put
SourceKept(i) ==
    LET entry == LegacyEntries[i]
        fin == it_out.v["financial_data"].v
        src == IF IsDict(entry) THEN Get(entry, "source_url", Null) ELSE Null
    IN \/ ~Truthy(src)
       \/ fin["source_url"] = src
       \/ \E j \in 1..Len(fin["other_metrics"].v) : fin["other_metrics"].v[j] = entry

\* C26: the migration is lossless: every entry of the legacy financial_data
\* list is in exactly one place of the output, with what it carried, and
\* the legacy lists are kept.
C26_MigrationLossless ==
    Migrated =>
        /\ \A i \in 1..Len(LegacyEntries) :
              Cardinality(PlacesOfEntry(i)) = 1 /\ SourceKept(i)
        /\ it_out.v["technologies"].v["confirmed"] = Get(it_data, "technologies", EmptyList)
        /\ it_out.v["vendors_partners"].v["confirmed"] = Get(it_data, "key_vendors", EmptyList)
        /\ it_out.v["announcements"] = Get(it_data, "recent_announcements", EmptyList)

\* what does hold: an entry that carries a metric and a value is placed once
C26_CompleteEntriesPlacedOnce ==
    Migrated =>
        \A i \in 1..Len(LegacyEntries) :
            LET entry == LegacyEntries[i]
            IN IF IsDict(entry) /\ Has(entry, "metric") /\ Has(entry, "value")
               THEN Cardinality(PlacesOfEntry(i)) = 1
               ELSE PlacesOfEntry(i) = {}

(***************************************************************************)
(* Properties of the endpoints' reuse of a supplied bundle.                *)
(***************************************************************************)
\* a bundle in the older flat-list schema
IsLegacyBundle(data) == ~IsErrorBundle(data) /\ ~\E k \in MarkerKeys : Has(data, k)

\* C27: a bundle of the older schema that the service reads, the bundle
\* supplied with a request included, is upgraded to the current schema
\* before it is used or returned.
C27_LegacyUpgradedBeforeUse ==
    ep_pc = "returned" =>
        /\ ~IsLegacyBundle(ep_used)
        /\ ~IsLegacyBundle(ep_response)

\* what does hold: the bundle of a fresh extraction is returned normalized
C27_FreshBundleNormalized ==
    (ep_pc = "returned" /\ ~Reusable(ep_req.intelligence_data)) =>
        /\ ~IsLegacyBundle(ep_response)
        /\ ep_response = normalize_legacy_intel(ep_response)

\* the vectors are those of the records, a zero vector where a batch failed
VectorsOf(all_embeddings, df) ==
    /\ Len(all_embeddings) = Len(df)
    /\ \A k \in 1..Len(df) :
          all_embeddings[k].zero \/ all_embeddings[k].text = RowText(df[k])

\* C29: the vectors load_or_create_embeddings returns are those of the
\* records it returns with them, and the vectors persisted under the
\* modification time m are those of the records of the file version with
\* modification time m, also when the file is modified between the load of
\* the table and the read of the modification time.
C29_VectorsAlignedWithRecords ==
    /\ \A t \in Threads :
          (EmbedReturning(t) /\ th[t].via # "empty")
              => VectorsOf(th[t].all_embeddings, th[t].df)
    /\ Parses(EMBEDDINGS_CACHE_FILE)
          => VectorsOf(EMBEDDINGS_CACHE_FILE.body.embeddings,
                       TableOf(EMBEDDINGS_CACHE_FILE.head.xlsx_mtime))

\* what does hold when one call runs at a time: the vectors a call
\* generates itself are those of the records it returns
C29_FreshVectorsAligned ==
    \A t \in Threads :
        (EmbedReturning(t) /\ th[t].via = "fresh")
            => VectorsOf(th[t].all_embeddings, th[t].df)

(***************************************************************************)
(* The size of the list intelligent_cascade_search returns.                *)
(***************************************************************************)
\* every engine invoked returned at most search_limit results
EnginesHonouredLimit ==
    \A i \in 1..Len(cs_log) : Len(cs_log[i].returned) <= cs_log[i].limit

\* C30: when every engine returns at most the number of results it was
\* asked for, a call with a positive target collects at most target + 2
\* results, whatever the engines return and however many of them are tried.
C30_AtMostTargetPlusTwo ==
    (cs_pc \in {"loop", "done"} /\ cs_target > 0 /\ EnginesHonouredLimit)
        => Len(cs_all_results) <= cs_target + 2

\* target 5: three results of the first engine, then four of the second,
\* which was asked for min(5, 2 + 2)
C30_Witness ==
    /\ cs_pc = "done"
    /\ cs_target = 5
    /\ Len(cs_log) = 2
    /\ cs_log[2].before = 3
    /\ cs_log[2].limit = 4
    /\ Len(cs_all_results) = 7

====
